---- MODULE Spec2Model ----
(***************************************************************************)
(* Verification model of the Sentinel decision core:                       *)
(*   - SentinelOrchestrator (sentinel/core/orchestrator.py): lifecycle     *)
(*     (_initialize / close / context manager) and the sense-decide-act    *)
(*     loop of run();                                                      *)
(*   - ParsedGoal / GoalStep (sentinel/core/goal_parser.py);               *)
(*   - HeuristicBrain (sentinel/layers/intelligence/brains/                *)
(*     heuristic_brain.py): decide, _score_element,                        *)
(*     _score_context_relevance, _find_spatial_context.                    *)
(*                                                                         *)
(* Scores and confidences are Python floats in the source; the model uses  *)
(* exact integers in hundredths (0.2 -> 20, 2.5 * x -> (5 * x) \div 2),    *)
(* which leaves out the rounding of binary floating point.  Texts that the *)
(* brain lower-cases, searches or tokenizes are sequences of one-character *)
(* strings.                                                                *)
(***************************************************************************)
EXTENDS Integers, Sequences, FiniteSets, TLC

\* ------------------------------------------------------------------------
\* Bounds of the model
\* ------------------------------------------------------------------------
MaxStepsBound == 2
MaxGoalLen == 2
MaxRuns == 2
MaxSessions == 2
MaxHistory == 11
MaxWords == 3

\* ------------------------------------------------------------------------
\* Orchestrator state
\* ------------------------------------------------------------------------
VARIABLES
    stealth_mode,        \* config.stealth_mode
    max_steps,           \* config.max_steps
    goal,                \* what the parser yields for config.goal
    _driver,             \* 0 = None, otherwise the id of a browser session
    _stealth_manager,    \* "none" | "live" | "dead" (constructed, __enter__ failed)
    _initialized,
    _recorder,           \* 0 = None, otherwise the id of a FlightRecorder (the
                         \* id of the session it was constructed after)
    created,             \* ids of the browser sessions acquired so far
    quitCalled,          \* ids on which quit() / the manager's __exit__ ran
    has_blacklist,       \* hasattr(self, "_step_blacklist")
    _step_blacklist,
    steps,               \* _parsed_goal.steps (sequence of step records)
    current_step_index,  \* _parsed_goal.current_step_index
    is_completed,        \* is_completed flag of every step
    pc,                  \* position of the control inside run()
    step,                \* loop variable of `for step in range(max_steps)`
    decisions,           \* len(decisions) of the local list `decisions`
    last_decision,       \* decisions[-1], the one element run() reads (NoDecision
                         \* while the list is empty)
    exec_ok,             \* what ActionExecutor.execute returned last
    verified,            \* what _execute_and_verify returned last
    effect_changed,      \* the URL or the page snapshot differed after the last
                         \* click or type (lines 486-494)
    page_has,            \* what the page answered to the check of the step in
                         \* the last _goal_achieved(decisions) of line 317
    is_blocked,          \* the local is_blocked of the iteration (260, 272)
    reason,              \* the local reason of the iteration ("" when not blocked)
    handled,             \* the local handled of the iteration (274): <<>> while
                         \* it is not assigned, otherwise <<its value>>
    reports,             \* recorders whose generate_report ran in this run
    logged,              \* set of <<recorder, decision index>> log_decision calls
    result,              \* ExecutionResult returned by the last run, or NoResult
    outcome,             \* "none" | "running" | "returned" | "raised"
    runs                 \* number of run() calls started

\* ------------------------------------------------------------------------
\* A brain at work: the arguments and the result of HeuristicBrain.decide
\* ------------------------------------------------------------------------
VARIABLES
    brain_goal,          \* argument `goal` of decide: the current GoalStep
    world_state,         \* argument `world_state`: sequence of ElementNode
    history,             \* argument `history`: the decisions made so far
    blacklist,           \* argument `blacklist`
    scores,              \* the scores the last call computed, per element
    brain_decision,      \* the Decision the last call returned
    chosen               \* index in world_state of best_elem of the last call
                         \* (0: the call had no candidate)

\* the decision router (DecisionEngine) and the host it is constructed on
VARIABLES
    brain_type,          \* the brain_type argument of the constructor
    profile,             \* the SystemProfile of the host
    engine               \* the constructed router: the brain_type it reports and
                         \* the class of the brain it holds (NoEngine before)

brainVars == <<brain_goal, world_state, history, blacklist, scores, brain_decision,
              chosen>>

routerVars == <<brain_type, profile, engine>>

\* calls of RegexGoalParser.parse
VARIABLES
    goal_words,          \* the words of the goal string handed to parse
    heap,                \* the GoalStep objects created so far, by reference
    parsed,              \* the ParsedGoal of the first call (NoParsed before)
    reparsed             \* the ParsedGoal of a second call with the same goal

parserVars == <<goal_words, heap, parsed, reparsed>>

\* one call of ActionExecutor.click (executor.py 113-264)
VARIABLES
    max_retries,         \* self.max_retries
    force_js,            \* argument force_js
    has_smart_click,     \* a stealth manager with smart_click is at hand
    click_pc,            \* position of the control inside click()
    attempt,             \* loop variable of `for attempt in range(max_retries)`
    resolves,            \* number of _resolve_element calls so far
    not_found,           \* a _resolve_element call returned None
    std_clicks,          \* number of element.click() calls so far
    std_ok,              \* an element.click() call returned normally
    js_clicks,           \* number of execute_script("arguments[0].click();") calls
    js_raised,           \* that execute_script call raised
    smart_ok,            \* smart_click returned normally
    url_changed,         \* driver.current_url differed from url_before
    click_result         \* what click() returned (NoActionResult before)

executorVars == <<max_retries, force_js, has_smart_click, click_pc, attempt, resolves,
                  not_found, std_clicks, std_ok, js_clicks, js_raised, smart_ok,
                  url_changed, click_result>>

orchVars == <<stealth_mode, max_steps, goal, _driver, _stealth_manager, _initialized,
          _recorder, created, quitCalled, has_blacklist,
          _step_blacklist, steps, current_step_index, is_completed, pc, step,
          decisions, last_decision, exec_ok, verified, effect_changed, page_has,
          is_blocked, reason, handled, reports, logged, result, outcome, runs>>

vars == <<orchVars, brainVars, routerVars, parserVars, executorVars>>

lifecycleVars == <<stealth_mode, _driver, _stealth_manager, _initialized, _recorder,
                   created, quitCalled>>

\* the locals of the blocked-page handling of an iteration
blockedVars == <<is_blocked, reason, handled>>

\* ExecutionResult; of the list `decisions` the result keeps the length
NoResult == [success |-> FALSE, error |-> "unset", report_path |-> 0, steps |-> 0,
             decisions |-> 0]

MaxStepsMsg == "Max steps reached without achieving goal"
ExcMsg == "exception"

BlockedMsg(r) ==
    CASE r = "modal overlay" -> "Blocked by: modal overlay"
      [] r = "loading spinner" -> "Blocked by: loading spinner"
      [] r = "captcha" -> "Blocked by: captcha"
      [] OTHER -> "Blocked by: overlay"

Reasons == {"modal overlay", "loading spinner", "captcha", "overlay"}

\* ------------------------------------------------------------------------
\* Goal steps (goal_parser.py)
\* ------------------------------------------------------------------------
\* the actions of the steps of a goal; run() treats a type step as it treats a
\* click step, so the goals of the model are built from click steps
StepActions == {"click", "verify", "navigate"}

\* the parser gives verify / navigate steps a value and click steps none
GoalStep(a) == [action |-> a, has_value |-> (a # "click")]

RECURSIVE SeqsUpTo(_, _)
SeqsUpTo(S, n) ==
    IF n = 0 THEN {<<>>}
    ELSE LET shorter == SeqsUpTo(S, n - 1)
         IN shorter \cup {Append(s, x) : s \in {t \in shorter : Len(t) = n - 1}, x \in S}

ParsedGoals == SeqsUpTo({GoalStep(a) : a \in StepActions}, MaxGoalLen)

\* ParsedGoal.current_step: 0 stands for None
current_step(idx, stps) == IF 0 <= idx /\ idx < Len(stps) THEN idx + 1 ELSE 0

\* a goal that counts as completed as soon as one of its steps is
ParsedGoal_is_completed_any(flags) == \E i \in 1..Len(flags) : flags[i]

\* ParsedGoal.is_completed
ParsedGoal_is_completed(flags) == \A i \in 1..Len(flags) : flags[i]

\* an advance that rebuilds the flags, keeping only the step just completed
next_step_rebuilt(idx, flags) ==
    <<idx + 1, [i \in 1..Len(flags) |-> i = idx + 1]>>

\* an advance that moves the cursor first and marks the step it then finds
next_step_marks_after(idx, flags) ==
    LET cs == current_step(idx + 1, flags)
    IN <<idx + 1, IF cs # 0 THEN [flags EXCEPT ![cs] = TRUE] ELSE flags>>

\* ParsedGoal.next_step: returns the new <<current_step_index, flags>>
next_step(idx, flags) ==
    LET cs == current_step(idx, flags)
    IN <<idx + 1, IF cs # 0 THEN [flags EXCEPT ![cs] = TRUE] ELSE flags>>

\* ------------------------------------------------------------------------
\* Decisions a brain can hand to the loop (confidence in hundredths)
\* ------------------------------------------------------------------------
Decision(a, t, c) == [action |-> a, target |-> t, confidence |-> c]

NoDecision == Decision("", "", 0)

\* the list `decisions` as _goal_achieved sees it: its last element, if any
DecisionsTail == IF decisions = 0 THEN <<>> ELSE <<last_decision>>

\* what a brain answers for a step of action a (heuristic_brain.py 50-104):
\* with no candidate, wait on body (0.5) for a verify step and scroll on body
\* (0.3) otherwise; with a candidate, the verify signal (1.0) for a verify step
\* and otherwise the step's action on the candidate's selector with the
\* candidate's score as confidence (one below and one above the 0.5 of
\* _goal_achieved)
DecisionChoices(a) ==
    IF a = "verify"
    THEN { Decision("wait", "body", 50), Decision("verify", "body", 100) }
    ELSE { Decision("scroll", "body", 30), Decision(a, "#a", 30),
           Decision(a, "#a", 100) }

\* ActionExecutor.execute (executor.py 82-111): the values it can return for a
\* decision; an action it does not implement returns False
ExecuteResults(d) ==
    IF d.action \in {"click", "type", "scroll", "wait", "navigate", "goal_achieved"}
    THEN BOOLEAN
    ELSE {FALSE}

\* SentinelOrchestrator._goal_achieved; pageHas is what the page answers to the
\* check of the step: _text_visible_on_page(value) for a verify step,
\* `value in current_url` for a navigate step
_goal_achieved(decs, idx, stps, pageHas) ==
    LET cs == current_step(idx, stps)
    IN IF cs = 0 THEN TRUE
       ELSE IF stps[cs].action = "verify"
            THEN \/ /\ stps[cs].has_value /\ pageHas
                    /\ decs # <<>> /\ decs[Len(decs)].confidence >= 60
                 \/ /\ decs # <<>>
                    /\ decs[Len(decs)].action = "verify"
                    /\ decs[Len(decs)].confidence >= 90
       ELSE IF stps[cs].action = "navigate"
            THEN stps[cs].has_value /\ pageHas
       ELSE /\ decs # <<>>
            /\ decs[Len(decs)].action = stps[cs].action
            /\ decs[Len(decs)].confidence >= 50

\* ------------------------------------------------------------------------
\* Lifecycle of the browser session (orchestrator.py: _initialize, close)
\* ------------------------------------------------------------------------
Life ==
    [stealth_mode |-> stealth_mode, _driver |-> _driver,
     _stealth_manager |-> _stealth_manager, _initialized |-> _initialized,
     _recorder |-> _recorder, created |-> created,
     quitCalled |-> quitCalled, raised |-> FALSE]

SetLife(l) ==
    /\ stealth_mode' = l.stealth_mode
    /\ _driver' = l._driver
    /\ _stealth_manager' = l._stealth_manager
    /\ _initialized' = l._initialized
    /\ _recorder' = l._recorder
    /\ created' = l.created
    /\ quitCalled' = l.quitCalled

\* SentinelOrchestrator._initialize.  stealthOk: StealthDriverManager.__enter__
\* succeeds; createOk: create_driver succeeds.  l.raised tells that the call
\* raised.  The recorder and the layers are plain constructors.
Initialize(l, stealthOk, createOk) ==
    IF l._initialized THEN l
    ELSE
      LET newId == Cardinality(l.created) + 1
          withDriver ==
            IF l.stealth_mode
            THEN IF stealthOk
                 THEN [l EXCEPT !._stealth_manager = "live", !._driver = newId,
                                !.created = @ \cup {newId}]
                 ELSE IF createOk
                      THEN [l EXCEPT !._stealth_manager = "dead", !._driver = newId,
                                     !.created = @ \cup {newId}]
                      ELSE [l EXCEPT !._stealth_manager = "dead", !.raised = TRUE]
            ELSE IF createOk
                 THEN [l EXCEPT !._driver = newId, !.created = @ \cup {newId}]
                 ELSE [l EXCEPT !.raised = TRUE]
      IN IF withDriver.raised THEN withDriver
         ELSE [withDriver EXCEPT !._recorder = newId, !._initialized = TRUE]

\* every way a call of _initialize can end
InitializeOutcomes(l) ==
    {Initialize(l, stealthOk, createOk) : stealthOk, createOk \in BOOLEAN}

\* SentinelOrchestrator.close.  The manager's __exit__ quits the session the
\* manager owns (none when its __enter__ failed); exceptions of __exit__ and of
\* quit() are swallowed.
CloseLife(l) ==
    LET afterManager ==
          IF l._stealth_manager # "none"
          THEN [l EXCEPT !.quitCalled =
                            IF l._stealth_manager = "live" /\ l._driver # 0
                            THEN @ \cup {l._driver} ELSE @,
                         !._stealth_manager = "none",
                         !._driver = 0]
          ELSE l
        afterDriver ==
          IF afterManager._driver # 0
          THEN [afterManager EXCEPT !.quitCalled = @ \cup {afterManager._driver},
                                    !._driver = 0]
          ELSE afterManager
    IN [afterDriver EXCEPT !._initialized = FALSE]

\* _pivot_to_stealth (662-681): every way the call can end.  Reading
\* current_url can raise before anything is closed; the final
\* driver.get(current_url) can raise after the re-initialization.
PivotOutcomes(l) ==
    IF l._stealth_manager # "none" THEN {l}
    ELSE LET again == InitializeOutcomes([CloseLife(l) EXCEPT !.stealth_mode = TRUE])
         IN {[l EXCEPT !.raised = TRUE]} \cup again
               \cup {[a EXCEPT !.raised = TRUE] : a \in again}

runVars == <<max_steps, goal, has_blacklist, _step_blacklist, steps,
             current_step_index, is_completed, pc, step, decisions,
             last_decision, exec_ok, verified, effect_changed, page_has,
             is_blocked, reason, handled, reports, logged, result, outcome, runs>>

\* SentinelOrchestrator.__enter__ of `with SentinelOrchestrator(...) as agent:`
\* (an exception of _initialize goes to the caller)
Enter ==
    /\ pc = "idle"
    /\ runs = 0
    /\ created = {}
    /\ ~_initialized
    /\ \E l \in InitializeOutcomes(Life) : SetLife(l)
    /\ UNCHANGED runVars
    /\ UNCHANGED <<brainVars, routerVars, parserVars, executorVars>>

\* SentinelOrchestrator.close / __exit__ / __del__
Close ==
    /\ pc = "idle"
    /\ SetLife(CloseLife(Life))
    /\ UNCHANGED runVars
    /\ UNCHANGED <<brainVars, routerVars, parserVars, executorVars>>

\* ------------------------------------------------------------------------
\* run() (orchestrator.py 220-357), one action per segment of the method
\* ------------------------------------------------------------------------

\* the locals of run() that end with the call
DropLocals ==
    /\ step' = 0
    /\ decisions' = 0
    /\ last_decision' = NoDecision

\* the ExecutionResult of the final return (346-357); rec: the recorder
FailureResult(msg, rec) ==
    [success |-> FALSE, error |-> msg, report_path |-> rec, steps |-> decisions,
     decisions |-> decisions]

\* a success return that reports the loop variable itself
SuccessResult_loop_variable(rec) ==
    [success |-> TRUE, error |-> "", report_path |-> rec, steps |-> step,
     decisions |-> decisions]

\* the ExecutionResult of the success return (325-335)
SuccessResult(rec) ==
    [success |-> TRUE, error |-> "", report_path |-> rec, steps |-> step + 1,
     decisions |-> decisions]

\* lines 337-357: the way out of the try block with error_msg = msg, by a
\* `break`, by the end of the loop or by the `except Exception` clause: the
\* finally clause generates the report of recorder rec and the final return
\* follows, unless generate_report raises
Finish(msg, rec) ==
    /\ pc' = "idle"
    /\ DropLocals
    /\ \/ /\ reports' = reports \cup {rec}
          /\ result' = FailureResult(msg, rec)
          /\ outcome' = "returned"
       \/ /\ outcome' = "raised"
          /\ UNCHANGED <<reports, result>>

\* the iteration goes on at position p
GoOn(p) ==
    /\ pc' = p
    /\ UNCHANGED <<step, decisions, last_decision, reports, result, outcome>>

\* the iteration ends and the next one begins
NextIteration ==
    /\ pc' = "loop"
    /\ step' = step + 1
    /\ UNCHANGED <<decisions, last_decision, reports, result, outcome>>

\* the locals of the blocked-page handling as the iteration leaves them
Sensed(blocked, r, h) ==
    /\ is_blocked' = blocked
    /\ reason' = r
    /\ handled' = h

\* lines 228-236: _initialize, parse, log, locals
RunStart ==
    /\ pc = "idle"
    /\ runs < MaxRuns
    /\ _initialized \/ Cardinality(created) < MaxSessions
    /\ runs' = runs + 1
    /\ result' = NoResult
    /\ exec_ok' = FALSE
    /\ verified' = FALSE
    /\ effect_changed' = FALSE
    /\ page_has' = FALSE
    /\ Sensed(FALSE, "", <<>>)
    /\ reports' = {}
    /\ logged' = {}
    /\ \E l \in InitializeOutcomes(Life) :
         /\ SetLife(l)
         /\ IF l.raised
            THEN /\ outcome' = "raised"
                 /\ UNCHANGED <<steps, current_step_index, is_completed, pc>>
            ELSE /\ outcome' = "running"
                 /\ steps' = goal
                 /\ current_step_index' = 0
                 /\ is_completed' = [i \in 1..Len(goal) |-> FALSE]
                 /\ pc' = "navigate"
    /\ UNCHANGED <<max_steps, goal, has_blacklist, _step_blacklist, step, decisions,
                   last_decision>>
    /\ UNCHANGED <<brainVars, routerVars, parserVars, executorVars>>

\* lines 239-245: driver.get(url), log_navigation, screenshot
Navigate ==
    /\ pc = "navigate"
    /\ \E ok \in BOOLEAN :
         IF ok THEN GoOn("loop") ELSE Finish(ExcMsg, _recorder)
    /\ UNCHANGED <<lifecycleVars, max_steps, goal, has_blacklist, _step_blacklist,
                   steps, current_step_index, is_completed, exec_ok, verified,
                   effect_changed, page_has, blockedVars, logged, runs>>
    /\ UNCHANGED <<brainVars, routerVars, parserVars, executorVars>>

\* _handle_blocked_state (359-377); recovered: what the modal dismissal or the
\* loading poll achieves.  _handle_captcha calls handle_challenges, which
\* StealthDriverManager does not define: the AttributeError is caught.
_handle_blocked_state(r, recovered) ==
    IF r = "modal overlay" THEN recovered
    ELSE IF r = "loading spinner" THEN recovered
    ELSE FALSE

\* a blocked handling whose `continue` does not consume an iteration
BlockedVerdict_uncounted(r, recovered, rec) ==
    IF _handle_blocked_state(r, recovered)
    THEN GoOn("loop")
    ELSE Finish(BlockedMsg(r), rec)

\* a blocked handling that lets the iteration go on to the decision when the
\* block was not resolved
BlockedVerdict_falls_through(r, recovered, rec) ==
    IF _handle_blocked_state(r, recovered)
    THEN NextIteration
    ELSE GoOn("decide")

\* lines 274-280, for the block reason that stands after the pivot
BlockedVerdict(r, recovered, rec) ==
    IF _handle_blocked_state(r, recovered)
    THEN NextIteration
    ELSE Finish(BlockedMsg(r), rec)

\* lines 268-280: the page is blocked for reason r.  The pivot can raise; after
\* it the page is sensed again (272); the loading poll reads the page and can
\* raise as well (413), the other recoveries catch what their calls raise
HandleBlocked(r) ==
    IF r = "captcha" /\ ~stealth_mode
    THEN /\ Cardinality(created) < MaxSessions
         /\ \E l \in PivotOutcomes(Life) :
              /\ SetLife(l)
              /\ IF l.raised
                 THEN Finish(ExcMsg, l._recorder) /\ Sensed(TRUE, r, <<>>)
                 ELSE \/ GoOn("decide") /\ Sensed(FALSE, "", <<>>)
                      \/ \E r2 \in Reasons, recovered \in BOOLEAN :
                            /\ BlockedVerdict(r2, recovered, l._recorder)
                            /\ Sensed(TRUE, r2, <<_handle_blocked_state(r2, recovered)>>)
    ELSE /\ UNCHANGED lifecycleVars
         /\ \/ \E recovered \in BOOLEAN :
                  /\ BlockedVerdict(r, recovered, _recorder)
                  /\ Sensed(TRUE, r, <<_handle_blocked_state(r, recovered)>>)
            \/ /\ r = "loading spinner"
               /\ Finish(ExcMsg, _recorder)
               /\ Sensed(TRUE, r, <<>>)

\* lines 247-280: loop head, wait for target, stabilize, sense, log, and the
\* handling of a blocked page
Sense ==
    /\ pc = "loop"
    /\ step < max_steps
    /\ exec_ok' = FALSE
    /\ verified' = FALSE
    /\ effect_changed' = FALSE
    /\ page_has' = FALSE
    /\ \/ Finish(ExcMsg, _recorder) /\ Sensed(FALSE, "", <<>>) /\ UNCHANGED lifecycleVars
       \/ GoOn("decide") /\ Sensed(FALSE, "", <<>>) /\ UNCHANGED lifecycleVars
       \/ \E r \in Reasons : HandleBlocked(r)
    /\ UNCHANGED <<max_steps, goal, has_blacklist, _step_blacklist, steps,
                   current_step_index, is_completed, logged, runs>>
    /\ UNCHANGED <<brainVars, routerVars, parserVars, executorVars>>

\* lines 247, 337-338: the loop ran max_steps times
Exhausted ==
    /\ pc = "loop"
    /\ step >= max_steps
    /\ Finish(MaxStepsMsg, _recorder)
    /\ UNCHANGED <<lifecycleVars, max_steps, goal, has_blacklist, _step_blacklist,
                   steps, current_step_index, is_completed, exec_ok, verified,
                   effect_changed, page_has, blockedVars, logged, runs>>
    /\ UNCHANGED <<brainVars, routerVars, parserVars, executorVars>>

\* lines 282-300: advance-or-stop check, blacklist attribute, brain, log; the
\* `break` of the check goes to line 338, where error_msg is still None
Decide ==
    /\ pc = "decide"
    /\ IF current_step(current_step_index, steps) = 0
       THEN /\ Finish(MaxStepsMsg, _recorder)
            /\ UNCHANGED <<has_blacklist, _step_blacklist, logged>>
       ELSE /\ has_blacklist' = TRUE
            /\ _step_blacklist' = (IF has_blacklist THEN _step_blacklist ELSE <<>>)
            /\ \/ Finish(ExcMsg, _recorder) /\ UNCHANGED logged
               \/ \E d \in DecisionChoices(steps[current_step(current_step_index, steps)].action) :
                    /\ decisions' = decisions + 1
                    /\ last_decision' = d
                    /\ logged' = logged \cup {<<_recorder, decisions + 1>>}
                    /\ pc' = "act"
                    /\ UNCHANGED <<step, reports, result, outcome>>
    /\ UNCHANGED <<lifecycleVars, max_steps, goal, steps, current_step_index,
                   is_completed, exec_ok, verified, effect_changed, page_has,
                   blockedVars, runs>>
    /\ UNCHANGED <<brainVars, routerVars, parserVars, executorVars>>

\* _execute_and_verify (450-505); execOk: what ActionExecutor.execute returns;
\* changed: the URL or the page snapshot differs after the action
_execute_and_verify(d, idx, stps, execOk, changed, pageHas) ==
    IF ~execOk THEN FALSE
    ELSE IF d.action \in {"click", "type"}
         THEN \/ changed
              \/ _goal_achieved(<<d>>, idx, stps, pageHas)
         ELSE TRUE

\* lines 322-335 and 340-344: the success return.  When generate_report
\* raises, the except clause takes over; otherwise the finally clause runs
\* generate_report once more before the return completes
ReturnSuccess ==
    \/ Finish(ExcMsg, _recorder)
    \/ /\ reports' = reports \cup {_recorder}
       /\ pc' = "idle"
       /\ DropLocals
       /\ \/ result' = SuccessResult(_recorder) /\ outcome' = "returned"
          \/ result' = NoResult /\ outcome' = "raised"

\* the decision and the outcome of its execution lead to the `continue` of
\* line 310
Blacklisting(d, success) == ~success /\ d.target # "" /\ d.target # "body"

\* lines 302-335: act, verify, blacklist or advance.  changed: the URL or the
\* page snapshot differs after the action, read for click and type only;
\* pageHas1 and pageHas2: what the page answers to the check of the step
\* inside _execute_and_verify and at line 317
Act ==
    /\ pc = "act"
    /\ \/ /\ Finish(ExcMsg, _recorder)
          /\ UNCHANGED <<_step_blacklist, current_step_index, is_completed, exec_ok,
                         verified, effect_changed, page_has>>
       \/ \E execOk \in ExecuteResults(last_decision), pageHas1 \in BOOLEAN :
          \E changed \in (IF execOk /\ last_decision.action \in {"click", "type"}
                          THEN BOOLEAN ELSE {FALSE}) :
          \E success \in {_execute_and_verify(last_decision, current_step_index, steps,
                                              execOk, changed, pageHas1)} :
          \E pageHas2 \in (IF /\ ~Blacklisting(last_decision, success)
                              /\ steps[current_step(current_step_index, steps)].action
                                    \in {"verify", "navigate"}
                           THEN BOOLEAN ELSE {FALSE}) :
            LET d == last_decision
                achieved == _goal_achieved(DecisionsTail, current_step_index, steps,
                                           pageHas2)
                advanced == next_step(current_step_index, is_completed)
            IN /\ exec_ok' = execOk
               /\ verified' = success
               /\ effect_changed' = changed
               /\ page_has' = pageHas2
               /\ IF Blacklisting(d, success)
                  THEN /\ _step_blacklist' = Append(_step_blacklist, d.target)
                       /\ NextIteration
                       /\ UNCHANGED <<current_step_index, is_completed>>
                  ELSE IF ~achieved
                  THEN /\ NextIteration
                       /\ UNCHANGED <<_step_blacklist, current_step_index,
                                      is_completed>>
                  ELSE /\ current_step_index' = advanced[1]
                       /\ is_completed' = advanced[2]
                       /\ _step_blacklist' = <<>>
                       /\ IF ParsedGoal_is_completed(advanced[2])
                          THEN ReturnSuccess
                          ELSE NextIteration
    /\ UNCHANGED <<lifecycleVars, max_steps, goal, has_blacklist, steps, blockedVars,
                   logged, runs>>
    /\ UNCHANGED <<brainVars, routerVars, parserVars, executorVars>>

\* the orchestrator after __init__ (100-156), but for its configuration
Constructed ==
    /\ _driver = 0
    /\ _stealth_manager = "none"
    /\ _initialized = FALSE
    /\ _recorder = 0
    /\ created = {}
    /\ quitCalled = {}
    /\ has_blacklist = FALSE
    /\ _step_blacklist = <<>>
    /\ steps = <<>>
    /\ current_step_index = 0
    /\ is_completed = <<>>
    /\ pc = "idle"
    /\ step = 0
    /\ decisions = 0
    /\ last_decision = NoDecision
    /\ exec_ok = FALSE
    /\ verified = FALSE
    /\ effect_changed = FALSE
    /\ page_has = FALSE
    /\ is_blocked = FALSE
    /\ reason = ""
    /\ handled = <<>>
    /\ reports = {}
    /\ logged = {}
    /\ result = NoResult
    /\ outcome = "none"
    /\ runs = 0

\* ------------------------------------------------------------------------
\* Decision router (DecisionEngine) and SystemProfiler
\* ------------------------------------------------------------------------
NoEngine == [brain_type |-> "", brain |-> ""]

\* SystemProfile: the fields recommend_brain_type reads; RAM in whole GB
SystemProfile(ram, openai, anthropic) ==
    [total_ram_gb |-> ram, has_openai_key |-> openai, has_anthropic_key |-> anthropic]

\* RAM sizes of the hosts of the model, on both sides of the 8 GB of
\* can_run_local_slm
RamCatalog == {4, 7, 8, 16}

Profiles ==
    {SystemProfile(ram, openai, anthropic) :
        ram \in RamCatalog, openai \in BOOLEAN, anthropic \in BOOLEAN}

\* the brain_type arguments of the model: the four documented ones and an
\* unknown identifier
BrainTypeCatalog == {"auto", "heuristic", "cloud", "local", "unknown_brain"}

\* SystemProfile.can_run_local_slm
can_run_local_slm(p) == p.total_ram_gb >= 8

\* a recommendation that prefers the local model to the cloud
recommend_local_first(p) ==
    IF can_run_local_slm(p) THEN "local"
    ELSE IF p.has_openai_key \/ p.has_anthropic_key THEN "cloud"
    ELSE "heuristic"

\* SystemProfiler.recommend_brain_type
recommend_brain_type(p) ==
    IF p.has_openai_key \/ p.has_anthropic_key THEN "cloud"
    ELSE IF can_run_local_slm(p) THEN "local"
    ELSE "heuristic"

\* the brain class behind an identifier; an unknown identifier gets the
\* heuristic brain
BrainClass(t) ==
    CASE t = "cloud" -> "CloudBrain"
      [] t = "local" -> "LocalBrain"
      [] OTHER -> "HeuristicBrain"

\* DecisionEngine(brain_type=t) on a host of profile p: "auto" is resolved by
\* the profiler, an unknown identifier becomes "heuristic"
DecisionEngine(t, p) ==
    LET resolved == IF t = "auto" THEN recommend_brain_type(p) ELSE t
        known == IF resolved \in {"cloud", "local", "heuristic"} THEN resolved
                 ELSE "heuristic"
    IN [brain_type |-> known, brain |-> BrainClass(known)]

\* the router is constructed
RouterConstruct ==
    /\ engine = NoEngine
    /\ engine' = DecisionEngine(brain_type, profile)
    /\ UNCHANGED <<brain_type, profile>>
    /\ UNCHANGED <<orchVars, brainVars, parserVars, executorVars>>

\* no ParsedGoal (None)
NoParsed == [raw_goal |-> <<>>, steps |-> <<>>, current_step_index |-> -1]

\* the parser has not been called
ParserIdle ==
    /\ goal_words = <<>>
    /\ heap = <<>>
    /\ parsed = NoParsed
    /\ reparsed = NoParsed

\* click() has not returned; of ActionResult the fields the callers and the
\* tests read: success, metadata["strategy"], metadata["navigation"], error
NoActionResult == [kind |-> "pending", success |-> FALSE, strategy |-> "",
                   navigation |-> FALSE, error |-> ""]

\* ActionExecutor(driver): max_retries has its default (executor.py 56)
DefaultMaxRetries == 3

\* the locals of a call of click() at its start
ClickLocals ==
    /\ attempt = 0
    /\ resolves = 0
    /\ not_found = FALSE
    /\ std_clicks = 0
    /\ std_ok = FALSE
    /\ js_clicks = 0
    /\ js_raised = FALSE
    /\ smart_ok = FALSE
    /\ url_changed = FALSE
    /\ click_result = NoActionResult

\* no call of click() is followed
ExecutorIdle ==
    /\ max_retries = DefaultMaxRetries
    /\ force_js = FALSE
    /\ has_smart_click = FALSE
    /\ click_pc = "idle"
    /\ ClickLocals

\* no router is being constructed
RouterIdle ==
    /\ brain_type = "auto"
    /\ profile = SystemProfile(4, FALSE, FALSE)
    /\ engine = NoEngine

\* no call of a brain is followed
BrainIdle ==
    /\ brain_goal = <<>>
    /\ world_state = <<>>
    /\ history = <<>>
    /\ blacklist = <<>>
    /\ scores = <<>>
    /\ brain_decision = NoDecision
    /\ chosen = 0

Init ==
    /\ stealth_mode \in BOOLEAN
    /\ max_steps \in 0..MaxStepsBound
    /\ goal \in ParsedGoals
    /\ Constructed
    /\ BrainIdle
    /\ RouterIdle
    /\ ParserIdle
    /\ ExecutorIdle

Next ==
    \/ Enter
    \/ Close
    \/ RunStart
    \/ Navigate
    \/ Sense
    \/ Exhausted
    \/ Decide
    \/ Act

Spec == Init /\ [][Next]_vars

\* the segments of run() after its start; the code is single-threaded and
\* synchronous and every wait in it has a timeout, so each segment ends
RunStep == Navigate \/ Sense \/ Exhausted \/ Decide \/ Act

\* ------------------------------------------------------------------------
\* Text (Python str): a sequence of one-character strings
\* ------------------------------------------------------------------------
UpperLetters == <<"A", "B", "C", "D", "E", "F", "G", "H", "I", "J", "K", "L", "M",
                  "N", "O", "P", "Q", "R", "S", "T", "U", "V", "W", "X", "Y", "Z">>
LowerLetters == <<"a", "b", "c", "d", "e", "f", "g", "h", "i", "j", "k", "l", "m",
                  "n", "o", "p", "q", "r", "s", "t", "u", "v", "w", "x", "y", "z">>
Digits == {"0", "1", "2", "3", "4", "5", "6", "7", "8", "9"}

Range(s) == {s[i] : i \in 1..Len(s)}

\* str.lower
lower(s) ==
    [i \in 1..Len(s) |->
        IF \E k \in 1..Len(UpperLetters) : UpperLetters[k] = s[i]
        THEN LowerLetters[CHOOSE k \in 1..Len(UpperLetters) : UpperLetters[k] = s[i]]
        ELSE s[i]]

\* `sub in s` of two strings
Contains(sub, s) ==
    \E i \in 0..(Len(s) - Len(sub)) : SubSeq(s, i + 1, i + Len(sub)) = sub

isalpha(c) == c \in Range(UpperLetters) \cup Range(LowerLetters)

\* the character class [a-z0-9\-\.] of tokenize
TokenChars == Range(LowerLetters) \cup Digits \cup {"-", "."}

\* the character class [\-\_\.] of the sub-token split
Separators == {"-", "_", "."}

\* re.findall(r'[a-z0-9\-\.]+', text): the maximal runs of token characters,
\* from position i on, cur being the run read so far
RECURSIVE findall(_, _, _)
findall(text, i, cur) ==
    IF i > Len(text)
    THEN IF cur = <<>> THEN <<>> ELSE <<cur>>
    ELSE IF text[i] \in TokenChars
         THEN findall(text, i + 1, Append(cur, text[i]))
         ELSE (IF cur = <<>> THEN <<>> ELSE <<cur>>) \o findall(text, i + 1, <<>>)

\* re.split(r'[\-\_\.]', t): the pieces between separators, empty ones included
RECURSIVE re_split(_, _, _)
re_split(t, i, cur) ==
    IF i > Len(t) THEN <<cur>>
    ELSE IF t[i] \in Separators
         THEN <<cur>> \o re_split(t, i + 1, <<>>)
         ELSE re_split(t, i + 1, Append(cur, t[i]))

stop_words ==
    { <<"c", "l", "i", "c", "k">>, <<"t", "y", "p", "e">>,
      <<"v", "e", "r", "i", "f", "y">>,
      <<"n", "a", "v", "i", "g", "a", "t", "e">>, <<"w", "a", "i", "t">>,
      <<"c", "h", "e", "c", "k">>, <<"s", "e", "l", "e", "c", "t">>,
      <<"p", "r", "e", "s", "s">>, <<"t", "h", "e">>, <<"a">>, <<"a", "n">>,
      <<"i", "n">>, <<"o", "n">>, <<"a", "t">>, <<"f", "o", "r">>,
      <<"w", "i", "t", "h">>, <<"t", "o">>, <<"o", "f">>, <<"b", "y">>,
      <<"f", "r", "o", "m">>, <<"b", "u", "t", "t", "o", "n">>,
      <<"l", "i", "n", "k">>, <<"i", "n", "p", "u", "t">>,
      <<"f", "i", "e", "l", "d">>, <<"t", "e", "x", "t">>,
      <<"p", "a", "g", "e">>, <<"s", "i", "t", "e">>, <<"a", "p", "p">>,
      <<"i", "s">>, <<"a", "r", "e">>, <<"b", "e">>, <<"w", "a", "s">>,
      <<"w", "e", "r", "e">>, <<"a", "n", "d">>, <<"o", "r">>,
      <<"b", "u", "t">> }

\* tokenize of _score_context_relevance (246-258)
tokenize(text, use_stop_words) ==
    LET raw_tokens == findall(lower(text), 1, <<>>)
    IN IF ~use_stop_words
       THEN SelectSeq(raw_tokens, LAMBDA t : Len(t) > 1)
       ELSE SelectSeq(raw_tokens, LAMBDA t : Len(t) > 2 /\ t \notin stop_words)

\* lines 260-264 and 266-270: the tokens and the pieces of the tokens that hold
\* a separator
sub_tokens(tokens) ==
    Range(tokens) \cup
    UNION { Range(re_split(t, 1, <<>>)) :
              t \in {u \in Range(tokens) : Range(u) \cap Separators # {}} }

\* lines 278-284: weight of one common token, in hundredths
token_weight(token) ==
    30 + (IF Len(token) > 5 THEN 10 ELSE 0)
       + (IF Len(token) > 8 THEN 20 ELSE 0)
       + (IF /\ \E i \in 1..Len(token) : token[i] \in Digits
             /\ \E i \in 1..Len(token) : isalpha(token[i])
          THEN 30 ELSE 0)
       + (IF Range(token) \cap Separators # {} THEN 20 ELSE 0)

RECURSIVE SumWeights(_)
SumWeights(S) ==
    IF S = {} THEN 0
    ELSE LET t == CHOOSE x \in S : TRUE
         IN token_weight(t) + SumWeights(S \ {t})

\* HeuristicBrain._score_context_relevance, in hundredths
_score_context_relevance(goal_description, element_context, use_stop_words) ==
    IF element_context = <<>> \/ goal_description = <<>> THEN 0
    ELSE LET goal_sub_tokens == sub_tokens(tokenize(goal_description, use_stop_words))
             context_sub_tokens == sub_tokens(tokenize(element_context, use_stop_words))
             common_matches == {t \in goal_sub_tokens :
                                   t \in context_sub_tokens /\ Len(t) > 2}
             score == SumWeights(common_matches)
         IN IF score < 70 THEN score ELSE 70

\* ------------------------------------------------------------------------
\* World state and goal step as HeuristicBrain reads them
\* ------------------------------------------------------------------------

\* dict.get(k, default)
DictGet(d, k, default) == IF k \in DOMAIN d THEN d[k] ELSE default

\* {}
EmptyDict == [k \in {} |-> <<>>]

\* ElementNode (dom_mapper.py 18-35).  tag, id, selector and shadow_path are
\* only compared, so they are plain strings ("" for an absent one; the mapper
\* hands tags over in lower case); the texts the brain tokenizes are Text.
ElementNode(id, tag, text, selector, attributes, bounding_box, is_interactive, context_text) ==
    [id |-> id, tag |-> tag, text |-> text, selector |-> selector,
     shadow_path |-> "", attributes |-> attributes, bounding_box |-> bounding_box,
     is_visible |-> TRUE, is_interactive |-> is_interactive,
     context_text |-> context_text]

\* GoalStep with its TargetSpec (goal_parser.py 5-33) as the brain reads it
BrainStep(action, text, context_hint, description) ==
    [action |-> action,
     target |-> [text |-> text, id |-> "", css_class |-> <<>>],
     value |-> <<>>,
     context_hint |-> context_hint, description |-> description]

\* texts of the pages and of the goals
T_AddToCart == <<"A", "d", "d", " ", "t", "o", " ", "c", "a", "r", "t">>
T_WirelessMouse == <<"W", "i", "r", "e", "l", "e", "s", "s", " ", "M", "o", "u", "s", "e">>
T_UsbCable == <<"U", "S", "B", " ", "C", "a", "b", "l", "e">>
T_Menu == <<"M", "e", "n", "u">>
T_Search == <<"S", "e", "a", "r", "c", "h">>
T_ToggleNavigation == <<"T", "o", "g", "g", "l", "e", " ", "n", "a", "v", "i", "g", "a",
        "t", "i", "o", "n">>
T_ClickAddToCart == <<"C", "l", "i", "c", "k", " ", "A", "d", "d", " ", "t", "o", " ", "c",
        "a", "r", "t">>
T_submit == <<"s", "u", "b", "m", "i", "t">>
T_button == <<"b", "u", "t", "t", "o", "n">>
T_menu == <<"m", "e", "n", "u">>
T_navigation == <<"n", "a", "v", "i", "g", "a", "t", "i", "o", "n">>
T_toggle == <<"t", "o", "g", "g", "l", "e">>
T_Bar == <<" ", "|", " ">>

T_VerifyWirelessMouse == <<"v", "e", "r", "i", "f", "y", " ">> \o T_WirelessMouse

Box(x, y) == [k \in {"x", "y"} |-> IF k = "x" THEN x ELSE y]

\* a shop page: two products, each a heading and an "Add to cart" button, and
\* a menu toggle; with = TRUE when the mapper extracted the context texts
ShopPage(with) ==
    << ElementNode("h-1", "h2", T_WirelessMouse, "#h-1", EmptyDict, Box(0, 100), FALSE, <<>>),
       ElementNode("add-1", "button", T_AddToCart, "#add-1", EmptyDict, Box(0, 150), TRUE,
                   IF with THEN T_WirelessMouse ELSE <<>>),
       ElementNode("h-2", "h2", T_UsbCable, "#h-2", EmptyDict, Box(0, 300), FALSE, <<>>),
       ElementNode("add-2", "button", T_AddToCart, "#add-2", EmptyDict, Box(0, 350), TRUE,
                   IF with THEN T_UsbCable ELSE <<>>),
       ElementNode("menu", "button", T_Menu, "#menu",
                   [k \in {"aria-label"} |-> T_ToggleNavigation], Box(0, 10), TRUE,
                   <<>>) >>

\* a search page: a text input with a placeholder and a submit button
SearchPage ==
    << ElementNode("q", "input", <<>>, "#q", [k \in {"placeholder"} |-> T_Search],
                   EmptyDict, TRUE, <<>>),
       ElementNode("go", "button", T_Search, "#go", [k \in {"type"} |-> T_submit],
                   EmptyDict, TRUE, <<>>) >>

\* a page of widgets: a button inside a shadow root, to which the mapper gives
\* its path both as selector and as shadow_path (dom_mapper.py 347-348), a
\* button that is not displayed (is_visible of _element_to_node), and a button
\* for which the mapper found no selector (829)
WidgetPage ==
    << [ElementNode("w-1", "button", T_Menu, "x-app >> button", EmptyDict, Box(0, 10),
                    TRUE, <<>>) EXCEPT !.shadow_path = "x-app >> button"],
       [ElementNode("w-2", "button", T_Menu, "#w-2", [k \in {"aria-label"} |-> T_Menu],
                    Box(0, 20), TRUE, <<>>) EXCEPT !.is_visible = FALSE],
       ElementNode("w-3", "button", T_Menu, "", EmptyDict, Box(0, 30), TRUE, <<>>) >>

WorldCatalog == {ShopPage(TRUE), ShopPage(FALSE), SearchPage, WidgetPage, <<>>}

StepCatalog ==
    { BrainStep("click", T_AddToCart, T_WirelessMouse, T_ClickAddToCart),
      BrainStep("click", T_AddToCart, <<>>, T_ClickAddToCart),
      BrainStep("click", T_Menu, <<>>, T_Menu),
      [BrainStep("type", T_Search, <<>>, T_Search) EXCEPT !.value = T_UsbCable],
      BrainStep("verify", T_WirelessMouse, <<>>, T_WirelessMouse),
      BrainStep("verify", <<>>, <<>>, T_VerifyWirelessMouse) }

\* blacklists handed to decide: none, or the selector of a button of a page
BlacklistCatalog == {<<>>, <<"#add-1">>, <<"#go">>}

\* context texts a candidate can carry
ContextCatalog == {T_WirelessMouse, T_UsbCable, T_Menu}

\* ------------------------------------------------------------------------
\* HeuristicBrain (heuristic_brain.py); scores in hundredths
\* ------------------------------------------------------------------------

\* the window history[-10:] of the loop-avoidance penalty
HistoryWindow == 10

\* lines 227-234: the distance of one element of world_state from the target
\* box, doubled (a heading counts half); -1 when the element is no candidate
spatial_dist(target_elem, elem) ==
    LET tx == DictGet(target_elem.bounding_box, "x", 0)
        ty == DictGet(target_elem.bounding_box, "y", 0)
        ex == DictGet(elem.bounding_box, "x", 0)
        ey == DictGet(elem.bounding_box, "y", 0)
        y_diff == ty - ey
        x_diff == IF tx >= ex THEN tx - ex ELSE ex - tx
        is_header == elem.tag \in {"h1", "h2", "h3", "h4", "h5", "h6", "strong"}
    IN IF elem = target_elem \/ DOMAIN elem.bounding_box = {} THEN -1
       ELSE IF 0 < y_diff /\ y_diff < 400 /\ x_diff < 300
            THEN IF is_header THEN y_diff ELSE 2 * y_diff
            ELSE -1

\* HeuristicBrain._find_spatial_context: the texts of the two nearest elements
\* above the target, joined by " | " (the sort is stable)
_find_spatial_context(target_elem, world) ==
    IF DOMAIN target_elem.bounding_box = {} THEN <<>>
    ELSE LET dist(i) == spatial_dist(target_elem, world[i])
             candidates == {i \in 1..Len(world) : dist(i) >= 0}
             before(i, j) == dist(i) < dist(j) \/ (dist(i) = dist(j) /\ i < j)
             first == CHOOSE i \in candidates : \A j \in candidates \ {i} : before(i, j)
             rest == candidates \ {first}
             second == CHOOSE i \in rest : \A j \in rest \ {i} : before(i, j)
         IN IF candidates = {} THEN <<>>
            ELSE IF rest = {} THEN world[first].text
            ELSE world[first].text \o T_Bar \o world[second].text

\* lines 119-130
action_boost(elem, gstep) ==
    IF gstep.action = "click"
    THEN (IF elem.tag \in {"button", "a"} THEN 20 ELSE 0)
         + (IF DictGet(elem.attributes, "type", <<>>) \in {T_submit, T_button}
            THEN 20 ELSE 0)
    ELSE IF gstep.action = "type"
         THEN (IF elem.tag \in {"input", "textarea"} THEN 30 ELSE 0)
         ELSE 0

\* lines 147-154, for one attribute
attr_boost(elem, target_text, attr) ==
    LET attr_val == lower(DictGet(elem.attributes, attr, <<>>))
    IN IF attr_val = <<>> THEN 0
       ELSE IF target_text = attr_val THEN 120
       ELSE IF Contains(target_text, attr_val) \/ Contains(attr_val, target_text)
            THEN 80
       ELSE 0

\* lines 132-157
text_boost(elem, gstep) ==
    IF gstep.target.text = <<>> THEN 0
    ELSE LET target_text == lower(gstep.target.text)
             elem_text == lower(elem.text)
             text_score == _score_context_relevance(target_text, elem_text, FALSE)
         IN (IF text_score > 20
             THEN (5 * text_score) \div 2 + (IF target_text = elem_text THEN 50 ELSE 0)
             ELSE -100)
            + attr_boost(elem, target_text, "aria-label")
            + attr_boost(elem, target_text, "title")
            + attr_boost(elem, target_text, "placeholder")
            + attr_boost(elem, target_text, "name")

\* lines 159-168
meta_boost(elem, gstep) ==
    (IF gstep.target.id # "" /\ elem.id = gstep.target.id THEN 90 ELSE 0)
    + (IF /\ gstep.target.css_class # <<>>
          /\ Contains(gstep.target.css_class, DictGet(elem.attributes, "class", <<>>))
       THEN 80 ELSE 0)

\* lines 170-192
context_boost(elem, gstep, world) ==
    IF gstep.context_hint # <<>>
    THEN LET own == lower(elem.context_text)
             context_text == IF own = <<>> THEN _find_spatial_context(elem, world)
                             ELSE own
             c_score == _score_context_relevance(lower(gstep.context_hint),
                                                 context_text, TRUE)
         IN IF c_score > 35 THEN (5 * c_score) \div 2 ELSE -1000
    ELSE IF gstep.description # <<>> /\ elem.context_text # <<>>
         THEN _score_context_relevance(gstep.description, elem.context_text, TRUE)
              \div 2
         ELSE 0

\* list.count of the selector among the targets of history[-10:]
target_count(selector, hist) ==
    LET from == IF Len(hist) > HistoryWindow THEN Len(hist) - HistoryWindow + 1 ELSE 1
    IN Cardinality({i \in from..Len(hist) :
                       hist[i].target # "" /\ hist[i].target = selector})

\* lines 194-209
penalty(elem, gstep, hist) ==
    LET lower_label == lower(elem.text)
                       \o lower(DictGet(elem.attributes, "aria-label", <<>>))
        target_lower == lower(gstep.target.text)
    IN (IF /\ gstep.action = "click" /\ gstep.target.text # <<>>
           /\ \/ Contains(T_menu, lower_label)
              \/ Contains(T_navigation, lower_label)
              \/ Contains(T_toggle, lower_label)
           /\ ~Contains(T_menu, target_lower)
           /\ ~Contains(T_navigation, target_lower)
        THEN -150 ELSE 0)
       - 100 * target_count(elem.selector, hist)

\* the sum `score` before the return of _score_element
raw_score(elem, gstep, hist, world) ==
    action_boost(elem, gstep) + text_boost(elem, gstep) + meta_boost(elem, gstep)
    + context_boost(elem, gstep, world) + penalty(elem, gstep, hist)

\* HeuristicBrain._score_element: `return max(0, score), details`
_score_element(elem, gstep, hist, world) ==
    LET score == raw_score(elem, gstep, hist, world)
    IN IF score > 0 THEN score ELSE 0

\* a scoring loop without the blacklist check
element_scores_unfiltered(gstep, world, hist, bl) ==
    [i \in 1..Len(world) |->
        IF ~world[i].is_visible \/ ~world[i].is_interactive THEN -1
        ELSE _score_element(world[i], gstep, hist, world)]

\* a scoring loop whose blacklist check looks at the latest entry only
element_scores_latest_only(gstep, world, hist, bl) ==
    [i \in 1..Len(world) |->
        IF ~world[i].is_visible \/ ~world[i].is_interactive THEN -1
        ELSE IF bl # <<>> /\ world[i].selector = bl[Len(bl)] THEN -1
        ELSE _score_element(world[i], gstep, hist, world)]

\* lines 27-36: the scoring loop over world_state; an element that is not
\* visible, not interactive or blacklisted is skipped (-1: not scored)
element_scores(gstep, world, hist, bl) ==
    [i \in 1..Len(world) |->
        IF ~world[i].is_visible \/ ~world[i].is_interactive THEN -1
        ELSE IF bl # <<>> /\ world[i].selector \in Range(bl) THEN -1
        ELSE _score_element(world[i], gstep, hist, world)]

\* lines 37-38: the indices of the elements kept in scored_elements, sc being
\* the scores of the loop
scored_elements(sc) == {i \in 1..Len(sc) : sc[i] > 0}

\* the head of a list sorted so that among equal scores the last element of
\* world_state comes first
best_elem_last_seen(sc) ==
    IF scored_elements(sc) = {} THEN 0
    ELSE CHOOSE i \in scored_elements(sc) :
           \A j \in scored_elements(sc) \ {i} :
               sc[i] > sc[j] \/ (sc[i] = sc[j] /\ i > j)

\* lines 41 and 71: the head of the list after the stable descending sort: the
\* first element of world_state among those of the highest score (0: none)
best_elem(sc) ==
    IF scored_elements(sc) = {} THEN 0
    ELSE CHOOSE i \in scored_elements(sc) :
           \A j \in scored_elements(sc) \ {i} :
               sc[i] > sc[j] \/ (sc[i] = sc[j] /\ i < j)

\* a decide that scrolls whenever it has no candidate, the verify step included
decide_scroll_only(gstep, world, sc) ==
    IF best_elem(sc) = 0
    THEN Decision("scroll", "body", 30)
    ELSE IF gstep.action = "verify" THEN Decision("verify", "body", 100)
    ELSE Decision(gstep.action,
                  IF world[best_elem(sc)].selector # ""
                  THEN world[best_elem(sc)].selector
                  ELSE world[best_elem(sc)].shadow_path,
                  sc[best_elem(sc)])

\* a decide that treats a verify step like any other step
decide_acts_on_winner(gstep, world, sc) ==
    IF best_elem(sc) = 0
    THEN Decision("scroll", "body", 30)
    ELSE Decision(gstep.action,
                  IF world[best_elem(sc)].selector # ""
                  THEN world[best_elem(sc)].selector
                  ELSE world[best_elem(sc)].shadow_path,
                  sc[best_elem(sc)])

\* HeuristicBrain.decide from line 50 on, sc being the scores of the loop
decide(gstep, world, sc) ==
    IF best_elem(sc) = 0
    THEN IF gstep.action = "verify" THEN Decision("wait", "body", 50)
         ELSE Decision("scroll", "body", 30)
    ELSE IF gstep.action = "verify" THEN Decision("verify", "body", 100)
    ELSE Decision(gstep.action,
                  IF world[best_elem(sc)].selector # ""
                  THEN world[best_elem(sc)].selector
                  ELSE world[best_elem(sc)].shadow_path,
                  sc[best_elem(sc)])

\* lines 93-96: the metadata of the Decision of a non-verify step
decision_metadata(gstep) ==
    IF gstep.action = "type" THEN [k \in {"text"} |-> gstep.value] ELSE EmptyDict

\* one call of brain.decide (orchestrator.py 292-299): the decision joins the
\* history the next call is given
BrainDecide ==
    /\ Len(history) < MaxHistory
    /\ scores' = element_scores(brain_goal, world_state, history, blacklist)
    /\ chosen' = best_elem(scores')
    /\ brain_decision' = decide(brain_goal, world_state, scores')
    /\ history' = Append(history, brain_decision')
    /\ UNCHANGED <<brain_goal, world_state, blacklist>>
    /\ UNCHANGED <<orchVars, routerVars, parserVars, executorVars>>

\* the action of the last decision had no effect (orchestrator.py 306-310):
\* its target joins the blacklist the next call is given
BrainBlacklist ==
    /\ brain_decision # NoDecision
    /\ brain_decision.target \notin {"", "body"}
    /\ brain_decision.target \notin Range(blacklist)
    /\ blacklist' = Append(blacklist, brain_decision.target)
    /\ UNCHANGED <<brain_goal, world_state, history, scores, brain_decision, chosen>>
    /\ UNCHANGED <<orchVars, routerVars, parserVars, executorVars>>

\* the inputs of the first call of decide
BrainInit ==
    /\ stealth_mode = FALSE
    /\ max_steps = 0
    /\ goal = <<>>
    /\ Constructed
    /\ brain_goal \in StepCatalog
    /\ world_state \in WorldCatalog
    /\ blacklist \in BlacklistCatalog
    /\ history = <<>>
    /\ scores = <<>>
    /\ brain_decision = NoDecision
    /\ chosen = 0
    /\ RouterIdle
    /\ ParserIdle
    /\ ExecutorIdle

BrainNext == BrainDecide \/ BrainBlacklist

SpecBrain == BrainInit /\ [][BrainNext]_vars

\* ------------------------------------------------------------------------
\* Properties of the orchestration loop
\* ------------------------------------------------------------------------
AllStepsCompleted == \A i \in 1..Len(is_completed) : is_completed[i]

\* C1: run() returns success=True only if every step of the parsed goal is
\* completed, and it returns in the iteration that completes the last step:
\* no state in which every step is completed is at a sensing, deciding or
\* acting position of the loop.
C1_SuccessOnlyWhenCompleted ==
    /\ (outcome = "returned" /\ result.success) => AllStepsCompleted
    /\ (Len(steps) > 0 /\ AllStepsCompleted) => pc = "idle"

C1_Witness ==
    /\ outcome = "returned"
    /\ result.success
    /\ Len(steps) = 2
    /\ result.steps = 2

\* C2: within a run, current_step_index never decreases and no is_completed
\* flag goes back from true to false.
C2_MonotonicCursor ==
    [][runs' = runs =>
          /\ current_step_index' >= current_step_index
          /\ \A i \in 1..Len(is_completed) : is_completed[i] => is_completed'[i]]_vars

C2_Witness ==
    /\ pc = "loop"
    /\ Len(steps) = 2
    /\ current_step_index = 1
    /\ is_completed = <<TRUE, FALSE>>

\* C3: run() never propagates an exception to its caller.
C3_RunNeverRaises == outcome # "raised"

\* C4: on every terminating path of run() generate_report has been called, and
\* a returned ExecutionResult carries the path of a report of this run.
C4_ReportOnEveryPath ==
    /\ outcome \in {"returned", "raised"} => reports # {}
    /\ outcome = "returned" => result.report_path \in reports

\* number of segments a run can still execute, at most
Rank ==
    IF outcome # "running" THEN 0
    ELSE CASE pc = "navigate" -> 3 * max_steps + 4
           [] pc = "loop" -> 3 * (max_steps - step) + 3
           [] pc = "decide" -> 3 * (max_steps - step) + 2
           [] OTHER -> 3 * (max_steps - step) + 1

\* C5: run() always terminates within max_steps loop iterations: the loop
\* variable never exceeds max_steps; every iteration that goes back to the
\* loop head (handled block, scroll / wait decision, blacklist-and-retry, step
\* advance) counts; a started run can always take its next segment and every
\* step taken while it is running lowers a natural-number rank, so no run goes
\* on for ever; and
\* exhausting the loop ends the run, a returned result having success=False
\* and the error "Max steps reached without achieving goal".
C5_Terminates ==
    /\ [](step <= max_steps /\ Rank >= 0)
    /\ [](outcome = "running" => ENABLED RunStep)
    /\ [][outcome = "running" => Rank' < Rank]_vars
    /\ [][(pc \in {"loop", "act"} /\ pc' = "loop") => step' = step + 1]_vars
    /\ [][(pc = "loop" /\ step >= max_steps) =>
             /\ pc' = "idle"
             /\ outcome' = "returned" =>
                   (~result'.success /\ result'.error = MaxStepsMsg)]_vars

C5_Witness ==
    /\ outcome = "returned"
    /\ result.error = MaxStepsMsg
    /\ result.steps = max_steps
    /\ max_steps = MaxStepsBound

\* C7: when the advance-or-stop check finds no current step, the result
\* run() returns has success=True and no error.
C7_StopsSuccessfully ==
    [][(/\ pc = "decide"
        /\ current_step(current_step_index, steps) = 0
        /\ outcome' = "returned") => (result'.success /\ result'.error = "")]_vars

\* C8: after close() every session the orchestrator acquired has been quit,
\* _driver is None and _initialized is False.
C8_AllSessionsReleased ==
    [][Close => (created' \subseteq quitCalled' /\ _driver' = 0 /\ ~_initialized')]_vars

\* ------------------------------------------------------------------------
\* Properties of HeuristicBrain
\* ------------------------------------------------------------------------

\* C6: decide never returns a Decision that targets an element whose selector
\* is in the blacklist it was given: the element it chose is not blacklisted,
\* and the target of the Decision is the selector of no blacklisted element of
\* world_state.
C6_BlacklistedNeverChosen ==
    [][BrainDecide =>
         /\ chosen' # 0 => world_state[chosen'].selector \notin Range(blacklist)
         /\ \A i \in 1..Len(world_state) :
               world_state[i].selector \in Range(blacklist)
                  => brain_decision'.target # world_state[i].selector]_vars

\* a call chose an element although a blacklisted element of the page scores
\* strictly higher
C6_Witness ==
    /\ chosen # 0
    /\ Len(history) = 1
    /\ brain_decision.target = world_state[chosen].selector
    /\ \E i \in 1..Len(world_state) :
          /\ world_state[i].selector \in Range(blacklist)
          /\ world_state[i].is_visible /\ world_state[i].is_interactive
          /\ _score_element(world_state[i], brain_goal, <<>>, world_state)
                > scores[chosen]

\* the context text c matches the hint of the step by the criterion of
\* _score_element (line 180)
ContextMatches(gstep, c) ==
    _score_context_relevance(lower(gstep.context_hint), lower(c), TRUE) > 35

\* C9: for a step with a context_hint and two candidates alike but for
\* context_text, the one whose context_text matches the hint scores strictly
\* higher than the one whose context_text does not.
C9_ContextDominance ==
    brain_goal # <<>> /\ brain_goal.context_hint # <<>> =>
        \A i \in 1..Len(world_state) : \A c1, c2 \in ContextCatalog :
            LET e1 == [world_state[i] EXCEPT !.context_text = c1]
                e2 == [world_state[i] EXCEPT !.context_text = c2]
            IN ContextMatches(brain_goal, c1) /\ ~ContextMatches(brain_goal, c2)
               => _score_element(e1, brain_goal, history, world_state)
                    > _score_element(e2, brain_goal, history, world_state)

\* C10: the score of a candidate whose selector is the target of N + 1 of the
\* last 10 decisions is strictly lower than its score when it is the target
\* of N of them.
C10_LoopAvoidanceMonotone ==
    brain_goal # <<>> =>
        \A i \in 1..Len(world_state) :
            LET again == Append(history,
                                Decision(brain_goal.action, world_state[i].selector, 100))
            IN target_count(world_state[i].selector, again)
                  = target_count(world_state[i].selector, history) + 1
               => _score_element(world_state[i], brain_goal, again, world_state)
                    < _score_element(world_state[i], brain_goal, history, world_state)

\* no visible, interactive, non-blacklisted element of world_state has a
\* positive score for the step
NoPositiveCandidate ==
    \A i \in 1..Len(world_state) :
        (/\ world_state[i].is_visible
         /\ world_state[i].is_interactive
         /\ world_state[i].selector \notin Range(blacklist))
           => _score_element(world_state[i], brain_goal, history, world_state) <= 0

\* C11: when no visible, interactive, non-blacklisted element has a positive
\* score, decide returns a wait decision on "body" for a verify step and, for
\* every other step action, a scroll decision on "body" with confidence 0.3.
C11_NoCandidateFallback ==
    [][(BrainDecide /\ NoPositiveCandidate) =>
         /\ brain_decision'.target = "body"
         /\ brain_goal.action = "verify" => brain_decision'.action = "wait"
         /\ brain_goal.action # "verify" =>
               (brain_decision'.action = "scroll" /\ brain_decision'.confidence = 30)]_vars

\* a type step on an empty world state was answered by scroll on body, 0.3
C11_Witness ==
    /\ brain_goal # <<>>
    /\ brain_goal.action = "type"
    /\ world_state = <<>>
    /\ Len(history) = 1
    /\ brain_decision = Decision("scroll", "body", 30)

\* ------------------------------------------------------------------------
\* Properties of the decision router
\* ------------------------------------------------------------------------

\* the construction of a router on any host, for any brain_type argument
RouterInit ==
    /\ stealth_mode = FALSE
    /\ max_steps = 0
    /\ goal = <<>>
    /\ Constructed
    /\ BrainIdle
    /\ brain_type \in BrainTypeCatalog
    /\ profile \in Profiles
    /\ engine = NoEngine
    /\ ParserIdle
    /\ ExecutorIdle

SpecRouter == RouterInit /\ [][RouterConstruct]_vars

Lit(alts) == [op |-> "lit", alts |-> alts]
\* characters of class cls, min or more: greedy (x+, x*) or lazy (x+?, x*?)
Rep(cls, min, greedy) == [op |-> "rep", cls |-> cls, min |-> min, greedy |-> greedy]
\* (?: ... )? around the items up to index to - 1: taken if that leads to a match
Opt(to) == [op |-> "opt", to |-> to]
\* the parentheses of capture group n
GroupOpen(n) == [op |-> "open", n |-> n]
GroupClose(n) == [op |-> "close", n |-> n]
\* (?=a|b|c)
Look(alts) == [op |-> "look", alts |-> alts]
\* a single character of class cls
One(cls) == [op |-> "one", cls |-> cls]
\* ^ and $
Bol == [op |-> "bol"]
Eol == [op |-> "eol"]

\* character classes: \s, \S, `.`, [^'"], ['"], [a-zA-Z0-9_-], [:\s]
InClass(c, cls) ==
    CASE cls = "s" -> c = " "
      [] cls = "S" -> c # " "
      [] cls = "any" -> TRUE
      [] cls = "nq" -> c \notin {"'", "\""}
      [] cls = "q" -> c \in {"'", "\""}
      [] cls = "id" -> isalpha(c) \/ c \in Digits \/ c \in {"_", "-"}
      [] cls = "cs" -> c \in {":", " "}
      [] OTHER -> FALSE

\* the literal lit stands at position pos of t, case ignored
LitAt(t, pos, lit) ==
    /\ pos + Len(lit) - 1 <= Len(t)
    /\ lower(SubSeq(t, pos, pos + Len(lit) - 1)) = lower(lit)

\* the number of characters of class cls that follow from position pos on
RECURSIVE RunLen(_, _, _)
RunLen(t, pos, cls) ==
    IF pos <= Len(t) /\ InClass(t[pos], cls) THEN 1 + RunLen(t, pos + 1, cls) ELSE 0

NoCaps == <<<<0, 0>>, <<0, 0>>>>
NoMatch == [start |-> 0, end |-> 0, caps |-> NoCaps]

\* the element of a one-element set; Only({e(x) : x \in {v}}) is e(v) with v
\* computed once
Only(S) == CHOOSE x \in S : TRUE

\* the first of two attempts that matches
OrElse(first, second) == Only({IF m # NoMatch THEN m ELSE second : m \in {first}})

\* the match of the items k.. of pattern re at position pos of t (end: the
\* position after the match; caps[n]: start and end of group n), or NoMatch
RECURSIVE MatchFrom(_, _, _, _, _)
RECURSIVE TryAlts(_, _, _, _, _, _)
RECURSIVE TryRep(_, _, _, _, _, _, _)
MatchFrom(re, k, t, pos, caps) ==
    IF k > Len(re) THEN [start |-> 0, end |-> pos, caps |-> caps]
    ELSE CASE re[k].op = "lit" -> TryAlts(re, k, t, pos, caps, 1)
           [] re[k].op = "rep" ->
                TryRep(re, k, t, pos, caps, re[k].min, RunLen(t, pos, re[k].cls))
           [] re[k].op = "one" ->
                IF pos <= Len(t) /\ InClass(t[pos], re[k].cls)
                THEN MatchFrom(re, k + 1, t, pos + 1, caps) ELSE NoMatch
           [] re[k].op = "opt" ->
                OrElse(MatchFrom(re, k + 1, t, pos, caps),
                       MatchFrom(re, re[k].to, t, pos, caps))
           [] re[k].op = "open" ->
                MatchFrom(re, k + 1, t, pos, [caps EXCEPT ![re[k].n] = <<pos, 0>>])
           [] re[k].op = "close" ->
                MatchFrom(re, k + 1, t, pos,
                          [caps EXCEPT ![re[k].n] = <<caps[re[k].n][1], pos>>])
           [] re[k].op = "look" ->
                IF \E a \in 1..Len(re[k].alts) : LitAt(t, pos, re[k].alts[a])
                THEN MatchFrom(re, k + 1, t, pos, caps) ELSE NoMatch
           [] re[k].op = "bol" ->
                IF pos = 1 THEN MatchFrom(re, k + 1, t, pos, caps) ELSE NoMatch
           [] OTHER ->
                IF pos = Len(t) + 1 THEN MatchFrom(re, k + 1, t, pos, caps) ELSE NoMatch

TryAlts(re, k, t, pos, caps, a) ==
    IF a > Len(re[k].alts) THEN NoMatch
    ELSE OrElse(IF LitAt(t, pos, re[k].alts[a])
                THEN MatchFrom(re, k + 1, t, pos + Len(re[k].alts[a]), caps)
                ELSE NoMatch,
                TryAlts(re, k, t, pos, caps, a + 1))

\* the counts lo..hi of the repetition re[k], tried from the largest down
\* when it is greedy and from the smallest up when it is lazy
TryRep(re, k, t, pos, caps, lo, hi) ==
    IF lo > hi THEN NoMatch
    ELSE IF lo = hi THEN MatchFrom(re, k + 1, t, pos + lo, caps)
    ELSE Only({IF re[k].greedy
               THEN OrElse(TryRep(re, k, t, pos, caps, mid + 1, hi),
                           TryRep(re, k, t, pos, caps, lo, mid))
               ELSE OrElse(TryRep(re, k, t, pos, caps, lo, mid),
                           TryRep(re, k, t, pos, caps, mid + 1, hi)) :
               mid \in {(lo + hi) \div 2}})

\* re.search among the start positions lo..hi: the leftmost match
RECURSIVE SearchIn(_, _, _, _)
SearchIn(re, t, lo, hi) ==
    IF lo > hi THEN NoMatch
    ELSE IF lo = hi
    THEN Only({IF m # NoMatch THEN [m EXCEPT !.start = lo] ELSE NoMatch :
               m \in {MatchFrom(re, 1, t, lo, NoCaps)}})
    ELSE Only({OrElse(SearchIn(re, t, lo, mid), SearchIn(re, t, mid + 1, hi)) :
               mid \in {(lo + hi) \div 2}})

\* re.search from position from on
SearchFrom(re, t, from) == SearchIn(re, t, from, Len(t) + 1)

re_search(re, text) == Only({SearchFrom(re, t, 1) : t \in {text}})

\* Python's None among texts
None == <<"None">>

\* m.group(n); None for a group that took no part in the match
group(text, match, n) ==
    Only({IF n = 0 THEN SubSeq(t, m.start, m.end - 1)
          ELSE IF m.caps[n][1] = 0 THEN None
          ELSE SubSeq(t, m.caps[n][1], m.caps[n][2] - 1) :
          t \in {text}, m \in {match}})

\* re.split(re, t) for a pattern without groups, from position from on
RECURSIVE SplitFrom(_, _, _)
SplitFrom(re, t, from) ==
    Only({IF m = NoMatch THEN <<SubSeq(t, from, Len(t))>>
          ELSE <<SubSeq(t, from, m.start - 1)>> \o SplitFrom(re, t, m.end) :
          m \in {SearchFrom(re, t, from)}})

regex_split(re, text) == Only({SplitFrom(re, t, 1) : t \in {text}})

\* re.sub(re, repl, t) for a pattern that matches no empty text
RECURSIVE SubFrom(_, _, _, _)
SubFrom(re, repl, t, from) ==
    Only({IF m = NoMatch THEN SubSeq(t, from, Len(t))
          ELSE SubSeq(t, from, m.start - 1) \o repl \o SubFrom(re, repl, t, m.end) :
          m \in {SearchFrom(re, t, from)}})

re_sub(re, repl, text) == Only({SubFrom(re, repl, t, 1) : t \in {text}})

\* str.replace(old, "") for a non-empty old, from position from on
RECURSIVE RemoveFrom(_, _, _)
RemoveFrom(t, old, from) ==
    IF from > Len(t) THEN <<>>
    ELSE IF from + Len(old) - 1 <= Len(t) /\ SubSeq(t, from, from + Len(old) - 1) = old
         THEN RemoveFrom(t, old, from + Len(old))
         ELSE <<t[from]>> \o RemoveFrom(t, old, from + 1)

Remove(text, old_text) ==
    Only({RemoveFrom(t, old, 1) : t \in {text}, old \in {old_text}})

\* str.strip(chars)
RECURSIVE lstrip(_, _)
lstrip(t, chars) ==
    IF t # <<>> /\ t[1] \in chars THEN lstrip(Tail(t), chars) ELSE t

RECURSIVE rstrip(_, _)
rstrip(t, chars) ==
    IF t # <<>> /\ t[Len(t)] \in chars THEN rstrip(SubSeq(t, 1, Len(t) - 1), chars) ELSE t

strip_chars(text, chars) ==
    Only({Only({rstrip(l, chars) : l \in {lstrip(t, chars)}}) : t \in {text}})

\* str.strip()
strip(t) == strip_chars(t, {" "})


\* ------------------------------------------------------------------------
\* RegexGoalParser (goal_parser.py)
\* ------------------------------------------------------------------------
\* the verbs of the lookahead of line 64
SplitVerbs ==
    <<<<"c", "l", "i", "c", "k">>, <<"t", "y", "p", "e">>, <<"e", "n", "t", "e", "r">>,
            <<"i", "n", "p", "u", "t">>, <<"s", "e", "a", "r", "c", "h">>, <<"f", "i", "n",
                    "d">>, <<"v", "e", "r", "i", "f", "y">>, <<"n", "a", "v", "i", "g",
                            "a", "t", "e">>, <<"g", "o">>, <<"o", "p", "e", "n">>>>

\* line 62: \s+(?:and\s+)?then\s+
ThenPattern ==
    <<Rep("s", 1, TRUE), Opt(5), Lit(<<<<"a", "n", "d">>>>), Rep("s", 1, TRUE),
            Lit(<<<<"t", "h", "e", "n">>>>),
      Rep("s", 1, TRUE)>>

\* line 64: \s+and\s+(?=click|type|enter|input|search|find|verify|navigate|go|open)
AndPattern ==
    <<Rep("s", 1, TRUE), Lit(<<<<"a", "n", "d">>>>), Rep("s", 1, TRUE), Look(SplitVerbs)>>

\* line 84: (.*?)\s+(?:for|in|associated with|near|of)\s+['"]?([^'"].*?)['"]?$
ContextPattern ==
    <<GroupOpen(1), Rep("any", 0, FALSE), GroupClose(1), Rep("s", 1, TRUE),
      Lit(<<<<"f", "o", "r">>, <<"i", "n">>, <<"a", "s", "s", "o", "c", "i", "a", "t", "e",
              "d", " ", "w", "i", "t", "h">>, <<"n", "e", "a", "r">>, <<"o", "f">>>>),
      Rep("s", 1, TRUE), Opt(9), One("q"), GroupOpen(2), One("nq"), Rep("any", 0, FALSE),
      GroupClose(2), Opt(15), One("q"), Eol>>

\* line 95: ['"]([^'"]+)['"]
QuotedPattern == <<One("q"), GroupOpen(1), Rep("nq", 1, TRUE), GroupClose(1), One("q")>>

\* line 97: verify\s+(?:that\s+)?(?:the\s+)?(.*)$
VerifyPattern ==
    <<Lit(<<<<"v", "e", "r", "i", "f", "y">>>>), Rep("s", 1, TRUE), Opt(6), Lit(<<<<"t",
            "h", "a", "t">>>>), Rep("s", 1, TRUE), Opt(9),
      Lit(<<<<"t", "h", "e">>>>), Rep("s", 1, TRUE), GroupOpen(1), Rep("any", 0, TRUE),
              GroupClose(1), Eol>>

\* line 105: \s+(?:exists|appears|is visible|is present|says|matches)$
VerifyTailPattern ==
    <<Rep("s", 1, TRUE),
      Lit(<<<<"e", "x", "i", "s", "t", "s">>, <<"a", "p", "p", "e", "a", "r", "s">>, <<"i",
              "s", " ", "v", "i", "s", "i", "b", "l", "e">>, <<"i", "s", " ", "p", "r",
                      "e", "s", "e", "n", "t">>, <<"s", "a", "y", "s">>, <<"m", "a", "t",
                              "c", "h", "e", "s">>>>),
      Eol>>

\* line 107: ^(?:text|title|heading|header|page|the)\s+
VerifyHeadPattern ==
    <<Bol, Lit(<<<<"t", "e", "x", "t">>, <<"t", "i", "t", "l", "e">>, <<"h", "e", "a", "d",
            "i", "n", "g">>, <<"h", "e", "a", "d", "e", "r">>, <<"p", "a", "g", "e">>,
                    <<"t", "h", "e">>>>),
      Rep("s", 1, TRUE)>>

\* line 120: (?:type|enter|input|search|find|lookup)\s+(?:for\s+)?
\*           ['"]([^'"]+)['"]\s+(?:in|into|on|the|at)?\s*(.*?)$
TypePattern ==
    <<Lit(<<<<"t", "y", "p", "e">>, <<"e", "n", "t", "e", "r">>, <<"i", "n", "p", "u",
            "t">>, <<"s", "e", "a", "r", "c", "h">>, <<"f", "i", "n", "d">>, <<"l", "o",
                    "o", "k", "u", "p">>>>),
      Rep("s", 1, TRUE), Opt(6), Lit(<<<<"f", "o", "r">>>>), Rep("s", 1, TRUE), One("q"),
              GroupOpen(1),
      Rep("nq", 1, TRUE), GroupClose(1), One("q"), Rep("s", 1, TRUE), Opt(14),
      Lit(<<<<"i", "n">>, <<"i", "n", "t", "o">>, <<"o", "n">>, <<"t", "h", "e">>, <<"a", "t">>>>),
      Rep("s", 0, TRUE), GroupOpen(2), Rep("any", 0, FALSE), GroupClose(2), Eol>>

\* line 132: (?:search|find|lookup|type|enter)\s+(?:for\s+)?(.*?)
\*           (?:\s+(?:in|into|on|the|at)\s+(.*))?$
UnquotedPattern ==
    <<Lit(<<<<"s", "e", "a", "r", "c", "h">>, <<"f", "i", "n", "d">>, <<"l", "o", "o", "k",
            "u", "p">>, <<"t", "y", "p", "e">>, <<"e", "n", "t", "e", "r">>>>),
      Rep("s", 1, TRUE), Opt(6), Lit(<<<<"f", "o", "r">>>>), Rep("s", 1, TRUE), GroupOpen(1),
      Rep("any", 0, FALSE), GroupClose(1), Opt(16), Rep("s", 1, TRUE),
      Lit(<<<<"i", "n">>, <<"i", "n", "t", "o">>, <<"o", "n">>, <<"t", "h", "e">>, <<"a", "t">>>>),
      Rep("s", 1, TRUE), GroupOpen(2), Rep("any", 0, TRUE), GroupClose(2), Eol>>

\* line 147: click\s+(?:the\s+)?(.*?)$
ClickPattern ==
    <<Lit(<<<<"c", "l", "i", "c", "k">>>>), Rep("s", 1, TRUE), Opt(6), Lit(<<<<"t", "h",
            "e">>>>), Rep("s", 1, TRUE), GroupOpen(1),
      Rep("any", 0, FALSE), GroupClose(1), Eol>>

\* line 157: (?:navigate|go|open)\s+(?:to\s+)?(https?://\S+)
NavPattern ==
    <<Lit(<<<<"n", "a", "v", "i", "g", "a", "t", "e">>, <<"g", "o">>, <<"o", "p", "e", "n">>>>),
      Rep("s", 1, TRUE), Opt(6), Lit(<<<<"t", "o">>>>), Rep("s", 1, TRUE), GroupOpen(1),
      Lit(<<<<"h", "t", "t", "p">>>>), Opt(10), Lit(<<<<"s">>>>), Lit(<<<<":", "/",
              "/">>>>), Rep("S", 1, TRUE), GroupClose(1)>>

\* lines 180, 186, 192: <word>\s*[:\s]\s*([a-zA-Z0-9_-]+)
AttrPattern(word) ==
    <<Lit(<<word>>), Rep("s", 0, TRUE), One("cs"), Rep("s", 0, TRUE), GroupOpen(1),
      Rep("id", 1, TRUE), GroupClose(1)>>

\* line 199: \s+(?:with|the)\s+
FluffPattern ==
    <<Rep("s", 1, TRUE), Lit(<<<<"w", "i", "t", "h">>, <<"t", "h", "e">>>>), Rep("s", 1, TRUE)>>

\* line 201: \s+(?:button|link|icon|dropdown|menu|toggle|field|input)$
DescriptorPattern ==
    <<Rep("s", 1, TRUE),
      Lit(<<<<"b", "u", "t", "t", "o", "n">>, <<"l", "i", "n", "k">>, <<"i", "c", "o",
              "n">>, <<"d", "r", "o", "p", "d", "o", "w", "n">>, <<"m", "e", "n", "u">>,
                      <<"t", "o", "g", "g", "l", "e">>, <<"f", "i", "e", "l", "d">>, <<"i",
                              "n", "p", "u", "t">>>>),
      Eol>>

W_class == <<"c", "l", "a", "s", "s">>
W_id == <<"i", "d">>
W_role == <<"r", "o", "l", "e">>
W_search == <<"s", "e", "a", "r", "c", "h">>
W_achieve == <<"a", "c", "h", "i", "e", "v", "e">>

\* TargetSpec
TargetSpec(text, css_class, id, role) ==
    [text |-> text, css_class |-> css_class, id |-> id, role |-> role]

\* GoalStep(...) as the parser constructs it; is_completed has its default
NewGoalStep(action, target, value, context_hint, description) ==
    [action |-> action, target |-> target, value |-> value,
     context_hint |-> context_hint, description |-> description,
     is_completed |-> FALSE]

\* Python's None among steps
NoStep == [action |-> "None"]

\* one attribute extraction of _parse_target (180-195): <<the value of the
\* attribute, the text without the matched part>>
ExtractAttr(word, text) ==
    Only({IF m = NoMatch THEN <<None, text>>
          ELSE <<group(text, m, 1), Remove(text, group(text, m, 0))>> :
          m \in {re_search(AttrPattern(word), text)}})

\* lines 197-204 of _parse_target: the visible text label that remains
CleanText(text) ==
    Only({IF clean_text # <<>> THEN strip_chars(clean_text, {"'", "\"", " "}) ELSE None :
          clean_text \in {strip(re_sub(DescriptorPattern, <<>>,
                                       strip(re_sub(FluffPattern, <<" ">>, text))))}})

\* RegexGoalParser._parse_target
_parse_target(raw) ==
    Only({Only({Only({Only({TargetSpec(CleanText(r[2]), c[1], i[1], r[1]) :
                            r \in {ExtractAttr(W_role, i[2])}}) :
                      i \in {ExtractAttr(W_id, c[2])}}) :
                c \in {ExtractAttr(W_class, text)}}) :
          text \in {raw}})

\* `x or "search"` of lines 124 and 135
OrSearch(raw) == Only({IF x = None \/ x = <<>> THEN W_search ELSE x : x \in {raw}})

\* the value of a verify step (99-107), m being the match of VerifyPattern
VerifyValue(base_text, m) ==
    Only({IF quoted_value # NoMatch
          THEN strip(group(base_text, quoted_value, 1))
          ELSE strip(re_sub(VerifyHeadPattern, <<>>,
                            strip(re_sub(VerifyTailPattern, <<>>,
                                         strip(group(base_text, m, 1)))))) :
          quoted_value \in {re_search(QuotedPattern, base_text)}})

\* 5. Generic Fallback of _parse_single_step
FallbackStep(text, base_text, context_hint) ==
    IF strip(base_text) # <<>>
    THEN NewGoalStep("click", _parse_target(base_text), None, context_hint, text)
    ELSE NoStep

\* 4. NAVIGATE patterns
NavStep(text, base_text, context_hint) ==
    Only({IF nav_match # NoMatch
          THEN NewGoalStep("navigate", TargetSpec(None, None, None, None),
                           group(base_text, nav_match, 1), context_hint, text)
          ELSE FallbackStep(text, base_text, context_hint) :
          nav_match \in {re_search(NavPattern, base_text)}})

\* 3. CLICK patterns
ClickStep(text, base_text, context_hint) ==
    Only({IF click_match # NoMatch
          THEN NewGoalStep("click", _parse_target(group(base_text, click_match, 1)),
                           None, context_hint, text)
          ELSE NavStep(text, base_text, context_hint) :
          click_match \in {re_search(ClickPattern, base_text)}})

\* the unquoted type/search step of lines 134-144, m being the match of
\* UnquotedPattern and val its stripped first group
UnquotedValueStep(text, base_text, context_hint, m, val) ==
    IF val # <<>> /\ lower(val) \notin {<<"t", "h", "e">>, <<"a">>, <<"f", "o", "r">>}
    THEN NewGoalStep("type", _parse_target(OrSearch(group(base_text, m, 2))),
                     val, context_hint, text)
    ELSE ClickStep(text, base_text, context_hint)

\* 2. TYPE/SEARCH patterns, unquoted
UnquotedStep(text, base_text, context_hint) ==
    Only({IF unquoted_search # NoMatch
          THEN Only({UnquotedValueStep(text, base_text, context_hint, unquoted_search, val) :
                     val \in {strip(group(base_text, unquoted_search, 1))}})
          ELSE ClickStep(text, base_text, context_hint) :
          unquoted_search \in {re_search(UnquotedPattern, base_text)}})

\* 2. TYPE/SEARCH patterns, quoted first
TypeStep(text, base_text, context_hint) ==
    Only({IF type_match # NoMatch
          THEN NewGoalStep("type",
                           _parse_target(OrSearch(group(base_text, type_match, 2))),
                           group(base_text, type_match, 1), context_hint, text)
          ELSE UnquotedStep(text, base_text, context_hint) :
          type_match \in {re_search(TypePattern, base_text)}})

\* 1. VERIFY patterns
VerifyStep(text, base_text, context_hint) ==
    Only({IF verify_match # NoMatch
          THEN NewGoalStep("verify", TargetSpec(None, None, None, None),
                           VerifyValue(base_text, verify_match), context_hint, text)
          ELSE TypeStep(text, base_text, context_hint) :
          verify_match \in {re_search(VerifyPattern, base_text)}})

\* lines 84-90: the clause without its context, and the context
BaseText(text, context_match) ==
    IF context_match # NoMatch THEN strip(group(text, context_match, 1)) ELSE text

ContextHint(text, context_match) ==
    IF context_match # NoMatch THEN strip(group(text, context_match, 2)) ELSE None

\* RegexGoalParser._parse_single_step
_parse_single_step(clause) ==
    Only({Only({Only({VerifyStep(text, base_text, context_hint) :
                      base_text \in {BaseText(text, context_match)},
                      context_hint \in {ContextHint(text, context_match)}}) :
                context_match \in {re_search(ContextPattern, text)}}) :
          text \in {clause}})

\* lines 67-70: the steps of the clauses n.., the clauses without a step left
\* out
RECURSIVE ClauseSteps(_, _)
ClauseSteps(step_texts, n) ==
    IF n > Len(step_texts) THEN <<>>
    ELSE Only({IF s # NoStep THEN <<s>> ELSE <<>> :
               s \in {_parse_single_step(strip(step_texts[n]))}})
         \o ClauseSteps(step_texts, n + 1)

\* ParsedGoal(raw_goal=goal, steps=parsed_steps)
ParsedGoal(raw_goal, parsed_steps) ==
    [raw_goal |-> raw_goal, steps |-> parsed_steps, current_step_index |-> 0]

\* lines 62-64 with the two splits in the other order
StepTexts_and_first(g) ==
    Only({IF Len(by_and) = 1 THEN regex_split(ThenPattern, g) ELSE by_and :
          by_and \in {regex_split(AndPattern, g)}})

\* lines 62-64: the clauses of the goal
StepTexts(g) ==
    Only({IF Len(by_then) = 1 THEN regex_split(AndPattern, g) ELSE by_then :
          by_then \in {regex_split(ThenPattern, g)}})

\* parse without lines 72-73
parse_no_fallback(g) ==
    Only({Only({ParsedGoal(g, parsed_steps) :
                parsed_steps \in {ClauseSteps(step_texts, 1)}}) :
          step_texts \in {StepTexts(g)}})

\* RegexGoalParser.parse
parse(g) ==
    Only({Only({ParsedGoal(g, IF parsed_steps = <<>> /\ strip(g) # <<>>
                              THEN <<_parse_single_step(W_achieve \o <<" ">> \o g)>>
                              ELSE parsed_steps) :
                parsed_steps \in {ClauseSteps(step_texts, 1)}}) :
          step_texts \in {StepTexts(g)}})


\* ------------------------------------------------------------------------
\* Goals handed to the parser: sequences of words joined by single spaces
\* ------------------------------------------------------------------------
\* the words the goals of the model are made of: the two separator words, a
\* verb, a word that is no verb, and the empty word (the place between two
\* adjacent spaces)
Vocabulary ==
    {<<>>, <<"t", "h", "e", "n">>, <<"a", "n", "d">>,
     <<"c", "l", "i", "c", "k">>, <<"L", "o", "g", "i", "n">>}

\* "Type 'admin' in user field and then click Submit"
G_TypeAdminThenSubmit ==
    <<<<"T", "y", "p", "e">>, <<"'", "a", "d", "m", "i", "n", "'">>, <<"i", "n">>,
      <<"u", "s", "e", "r">>, <<"f", "i", "e", "l", "d">>, <<"a", "n", "d">>,
      <<"t", "h", "e", "n">>, <<"c", "l", "i", "c", "k">>,
      <<"S", "u", "b", "m", "i", "t">>>>

\* "Login then verify 'Welcome' appears"
G_LoginThenVerify ==
    <<<<"L", "o", "g", "i", "n">>, <<"t", "h", "e", "n">>,
      <<"v", "e", "r", "i", "f", "y">>, <<"'", "W", "e", "l", "c", "o", "m", "e", "'">>,
      <<"a", "p", "p", "e", "a", "r", "s">>>>

\* "Type 'admin' in user field"
G_TypeAdmin == <<<<"T", "y", "p", "e">>, <<"'", "a", "d", "m", "i", "n", "'">>, <<"i", "n">>,
      <<"u", "s", "e", "r">>, <<"f", "i", "e", "l", "d">>>>

\* "click Login and verify 'Hi' then click Login": both kinds of separator
G_AndBeforeThen ==
    <<<<"c", "l", "i", "c", "k">>, <<"L", "o", "g", "i", "n">>, <<"a", "n", "d">>,
      <<"v", "e", "r", "i", "f", "y">>, <<"'", "H", "i", "'">>, <<"t", "h", "e", "n">>,
      <<"c", "l", "i", "c", "k">>, <<"L", "o", "g", "i", "n">>>>

\* goals without a word: "", " " and "  "
BlankGoals == {<<>>, <<<<>>, <<>>>>, <<<<>>, <<>>, <<>>>>}

\* " then ": the separator alone
G_ThenAlone == <<<<>>, <<"t", "h", "e", "n">>, <<>>>>

GoalCatalog ==
    SeqsUpTo(Vocabulary, MaxWords)
        \cup {G_TypeAdminThenSubmit, G_LoginThenVerify, G_TypeAdmin, G_AndBeforeThen,
              G_ThenAlone}
        \cup BlankGoals

\* ------------------------------------------------------------------------
\* Calls of the parser: goals, the objects parse creates, cursor progress
\* ------------------------------------------------------------------------
\* str.join: the words with one space between two of them
RECURSIVE Join(_)
Join(words) ==
    IF words = <<>> THEN <<>>
    ELSE IF Len(words) = 1 THEN words[1]
    ELSE words[1] \o <<" ">> \o Join(Tail(words))

\* the goal string handed to parse
GoalText == Join(goal_words)

\* GoalStep objects kept from an earlier call and handed out again
StepRefs_shared(stps) ==
    IF parsed # NoParsed /\ Len(parsed.steps) = Len(stps)
    THEN parsed.steps
    ELSE [i \in 1..Len(stps) |-> Len(heap) + i]

\* the GoalStep objects parse(g) creates, placed in the heap: their references
StepRefs(stps) == [i \in 1..Len(stps) |-> Len(heap) + i]

\* the step objects of a ParsedGoal
Deref(pg) == [i \in 1..Len(pg.steps) |-> heap[pg.steps[i]]]

\* a call parse(goal); the ParsedGoal holds references to the new steps
ParserParse ==
    /\ parsed = NoParsed
    /\ \E pg \in {parse(GoalText)} :
          /\ parsed' = [pg EXCEPT !.steps = StepRefs(pg.steps)]
          /\ heap' = heap \o pg.steps
    /\ UNCHANGED <<goal_words, reparsed>>
    /\ UNCHANGED <<orchVars, brainVars, routerVars, executorVars>>

\* ParsedGoal.next_step on the ParsedGoal of the first call, while it has a
\* current step
ParserNextStep ==
    /\ parsed # NoParsed
    /\ current_step(parsed.current_step_index, parsed.steps) # 0
    /\ LET flags == [i \in 1..Len(parsed.steps) |-> heap[parsed.steps[i]].is_completed]
           adv == next_step(parsed.current_step_index, flags)
       IN /\ parsed' = [parsed EXCEPT !.current_step_index = adv[1]]
          /\ heap' = [r \in 1..Len(heap) |->
                        IF \E i \in 1..Len(parsed.steps) : parsed.steps[i] = r
                        THEN [heap[r] EXCEPT !.is_completed =
                                 adv[2][CHOOSE i \in 1..Len(parsed.steps) :
                                            parsed.steps[i] = r]]
                        ELSE heap[r]]
    /\ UNCHANGED <<goal_words, reparsed>>
    /\ UNCHANGED <<orchVars, brainVars, routerVars, executorVars>>

\* a second call parse(goal) with the same goal string
ParserReparse ==
    /\ parsed # NoParsed
    /\ reparsed = NoParsed
    /\ \E pg \in {parse(GoalText)} :
          /\ reparsed' = [pg EXCEPT !.steps = StepRefs(pg.steps)]
          /\ heap' = heap \o pg.steps
    /\ UNCHANGED <<goal_words, parsed>>
    /\ UNCHANGED <<orchVars, brainVars, routerVars, executorVars>>

ParserInit ==
    /\ stealth_mode = FALSE
    /\ max_steps = 0
    /\ goal = <<>>
    /\ Constructed
    /\ BrainIdle
    /\ RouterIdle
    /\ goal_words \in GoalCatalog
    /\ heap = <<>>
    /\ parsed = NoParsed
    /\ reparsed = NoParsed
    /\ ExecutorIdle

ParserNext == ParserParse \/ ParserNextStep \/ ParserReparse

SpecParser == ParserInit /\ [][ParserNext]_vars

\* ------------------------------------------------------------------------
\* Properties of the goal parser
\* ------------------------------------------------------------------------
\* the actions of the steps the parser constructs
ParserActions == {"verify", "type", "click", "navigate"}

\* ------------------------------------------------------------------------
\* Properties of the loop: iterations, verification and step completion
\* ------------------------------------------------------------------------
\* C17: the steps field of the ExecutionResult of a successful run is at
\* least the number of steps of the parsed goal and at most max_steps.
C17_StepsWithinBounds ==
    (outcome = "returned" /\ result.success) =>
        /\ Len(steps) <= result.steps
        /\ result.steps <= max_steps

\* a run of a goal of one step succeeded in its second iteration
C17_Witness ==
    /\ outcome = "returned"
    /\ result.success
    /\ Len(steps) = 1
    /\ result.steps = 2
    /\ max_steps = 2

\* the goal step the iteration works on (there is one from line 286 on)
CurrentGoalStep == steps[current_step(current_step_index, steps)]

\* the iteration at line 302 runs to its end: to the next iteration or to the
\* success return, no exception of a collaborator ending it before
IterationEnds ==
    /\ pc = "act"
    /\ pc' = "loop" \/ is_completed' # is_completed

\* the iteration marks its goal step completed
StepCompletedNow ==
    /\ ~is_completed[current_step(current_step_index, steps)]
    /\ is_completed'[current_step(current_step_index, steps)]

\* C18: when a click or type decision was executed and neither the URL nor
\* the page snapshot differs afterwards, the target of the decision is added
\* to the step blacklist, the cursor is not advanced, and the next iteration
\* has the same current step.
C18_SilentFailureBlacklists ==
    [][(/\ pc = "act"
        /\ last_decision.action \in {"click", "type"}
        /\ exec_ok'
        /\ ~effect_changed')
       => /\ _step_blacklist' = Append(_step_blacklist, last_decision.target)
          /\ current_step_index' = current_step_index
          /\ is_completed' = is_completed
          /\ pc' = "loop"]_vars

\* the confidence from which _goal_achieved accepts a decision for a click or
\* type step (line 597), in hundredths
HighConfidence == 50

\* C19: an iteration marks a click or type step completed if and only if its
\* decision has the action of the step and the effect of the action was
\* verified (the URL or the page snapshot changed), or the decision has a
\* high confidence.
C19_InteractionCompletion ==
    [][(IterationEnds /\ CurrentGoalStep.action \in {"click", "type"})
       => (StepCompletedNow <=>
             \/ /\ last_decision.action = CurrentGoalStep.action
                /\ exec_ok'
                /\ effect_changed'
             \/ last_decision.confidence >= HighConfidence)]_vars

\* C20: an iteration marks a verify step completed if and only if the text
\* of the step was found on the page by the text-visibility check.
C20_VerifyCompletion ==
    [][(IterationEnds /\ CurrentGoalStep.action = "verify")
       => (StepCompletedNow <=> page_has')]_vars

\* C13: parse is total. A call returns a ParsedGoal whose cursor is 0 and
\* whose steps are all GoalStep objects, never None; a goal that is not
\* empty or whitespace-only gives at least one step; and when no clause of
\* such a goal parses, the result is exactly one step, the one built from
\* "achieve <goal>".
C13_ParseTotal ==
    [][ParserParse =>
         /\ parsed'.current_step_index = 0
         /\ \A i \in 1..Len(parsed'.steps) :
               /\ Deref(parsed)'[i] # NoStep
               /\ Deref(parsed)'[i].action \in ParserActions
         /\ strip(GoalText) # <<>> => Len(parsed'.steps) >= 1
         /\ (strip(GoalText) # <<>> /\ ClauseSteps(StepTexts(GoalText), 1) = <<>>) =>
               /\ Len(parsed'.steps) = 1
               /\ Deref(parsed)'[1].description = W_achieve \o <<" ">> \o GoalText]_vars

\* " then " was parsed: neither of its two clauses has a step, and the result
\* is the fallback step alone
C13_Witness ==
    /\ goal_words = G_ThenAlone
    /\ parsed # NoParsed
    /\ ClauseSteps(StepTexts(GoalText), 1) = <<>>
    /\ Len(parsed.steps) = 1
    /\ Deref(parsed)[1].action = "click"
    /\ Deref(parsed)[1].description = W_achieve \o <<" ">> \o GoalText

W_admin == <<"a", "d", "m", "i", "n">>
W_user == <<"u", "s", "e", "r">>
W_Submit == <<"S", "u", "b", "m", "i", "t">>

\* C14: parse("Type 'admin' in user field and then click Submit") is a type
\* step with value "admin" (without the quotes) and a target whose text
\* contains "user", followed by a click step with target text "Submit"; the
\* clause "Type 'admin' in user field" alone gives the same first step.
C14_TypeInField ==
    (parsed # NoParsed /\ goal_words \in {G_TypeAdminThenSubmit, G_TypeAdmin}) =>
        /\ Len(parsed.steps) = Len(StepTexts(GoalText))
        /\ Deref(parsed)[1].action = "type"
        /\ Deref(parsed)[1].value = W_admin
        /\ Deref(parsed)[1].target.text # None
        /\ Contains(W_user, lower(Deref(parsed)[1].target.text))
        /\ goal_words = G_TypeAdminThenSubmit =>
              /\ Deref(parsed)[2].action = "click"
              /\ Deref(parsed)[2].target.text = W_Submit

W_then == <<"t", "h", "e", "n">>
W_and == <<"a", "n", "d">>
W_Login == <<"L", "o", "g", "i", "n">>
W_Welcome == <<"W", "e", "l", "c", "o", "m", "e">>

\* text begins with prefix
StartsWith(text, prefix) ==
    Len(prefix) <= Len(text) /\ SubSeq(text, 1, Len(prefix)) = prefix

\* the first word from index i on that is not empty; Len(words) + 1 without one
NextNonEmpty(words, i) ==
    IF \E j \in i..Len(words) : words[j] # <<>>
    THEN CHOOSE j \in i..Len(words) :
            words[j] # <<>> /\ \A k \in i..(j - 1) : words[k] = <<>>
    ELSE Len(words) + 1

\* the last word of s..i-1 that is not empty; 0 without one
LastNonEmptyBefore(words, s, i) ==
    IF \E j \in s..(i - 1) : words[j] # <<>>
    THEN CHOOSE j \in s..(i - 1) :
            words[j] # <<>> /\ \A k \in (j + 1)..(i - 1) : words[k] = <<>>
    ELSE 0

\* word i separates clauses, the current clause starting at word s: a
\* separator word has a space before it that belongs to the clause and a
\* space after it; "then" is a strong separator, "and" a weak one when the
\* next word starts with a verb
SepAt(words, s, i, kind) ==
    /\ i > s
    /\ i < Len(words)
    /\ IF kind = "then" THEN lower(words[i]) = W_then
       ELSE /\ lower(words[i]) = W_and
            /\ NextNonEmpty(words, i + 1) <= Len(words)
            /\ \E v \in 1..Len(SplitVerbs) :
                  StartsWith(lower(words[NextNonEmpty(words, i + 1)]), SplitVerbs[v])

\* the last word of the clause s.. that the separator word i ends: an "and"
\* right before a "then" belongs to the separator
ClauseEnd(words, s, i, kind) ==
    Only({IF kind = "then" /\ a > s /\ lower(words[a]) = W_and THEN a - 1 ELSE i - 1 :
          a \in {LastNonEmptyBefore(words, s, i)}})

\* the clauses of the words s.. for one kind of separator, without the
\* spaces around them
RECURSIVE WordClauses(_, _, _)
WordClauses(words, s, kind) ==
    IF \E i \in (s + 1)..(Len(words) - 1) : SepAt(words, s, i, kind)
    THEN Only({<<strip(Join(SubSeq(words, s, ClauseEnd(words, s, i, kind))))>>
               \o WordClauses(words, NextNonEmpty(words, i + 1), kind) :
               i \in {CHOOSE i \in (s + 1)..(Len(words) - 1) :
                         /\ SepAt(words, s, i, kind)
                         /\ \A j \in (s + 1)..(i - 1) : ~SepAt(words, s, j, kind)}})
    ELSE <<strip(Join(SubSeq(words, s, Len(words))))>>

\* the clauses of a goal as the separator words give them: the strong
\* separators first, the weak ones when there is no strong one
SeparatorClauses(words) ==
    Only({IF Len(by_then) = 1 THEN WordClauses(words, 1, "and") ELSE by_then :
          by_then \in {WordClauses(words, 1, "then")}})

NonEmptyText(text) == text # <<>>

C16_ParseIdempotent ==
    [][ParserReparse =>
         /\ reparsed'.current_step_index = 0
         /\ reparsed'.raw_goal = parsed.raw_goal
         /\ Len(reparsed'.steps) = Len(parsed.steps)
         /\ \A i \in 1..Len(parsed.steps) :
               /\ Deref(reparsed)'[i].action = Deref(parsed)[i].action
               /\ Deref(reparsed)'[i].target = Deref(parsed)[i].target
               /\ Deref(reparsed)'[i].value = Deref(parsed)[i].value
               /\ Deref(reparsed)'[i].context_hint = Deref(parsed)[i].context_hint
               /\ ~Deref(reparsed)'[i].is_completed
         /\ \A i, j \in 1..Len(parsed.steps) : reparsed'.steps[i] # parsed.steps[j]
         /\ parsed' = parsed
         /\ Deref(parsed)' = Deref(parsed)]_vars

\* the goal was parsed again after the first of the two steps of the first
\* ParsedGoal had been completed
C16_Witness ==
    /\ reparsed # NoParsed
    /\ Len(parsed.steps) = 2
    /\ parsed.current_step_index = 1
    /\ Deref(parsed)[1].is_completed
    /\ reparsed.current_step_index = 0
    /\ ~Deref(reparsed)[1].is_completed

\* ------------------------------------------------------------------------
\* Properties of the loop: the step blacklist, blocked pages, the cursor
\* ------------------------------------------------------------------------
\* a goal step becomes the current step: the first step when run() has parsed
\* the goal (line 232), a later one when next_step moves the cursor (319)
StepBecomesCurrent ==
    /\ \/ pc = "idle" /\ pc' = "navigate"
       \/ pc = "act" /\ current_step_index' # current_step_index
    /\ current_step(current_step_index', steps') # 0

\* C21: the step blacklist is empty whenever a goal step becomes the current
\* step, at the start of every run() and at every advance of the cursor.
C21_BlacklistEmptyForNewStep ==
    [][StepBecomesCurrent => _step_blacklist' = <<>>]_vars

\* C22: within a run, once a target has been blacklisted for the current goal
\* step, no later decision made while that step is current has that target
\* (the step of a brain at work stays the current one; the loop blacklists
\* targets of its decisions between the calls).
C22_BlacklistedTargetNotRetried ==
    [][BrainDecide => brain_decision'.target \notin Range(blacklist)]_vars

\* the target of the first decision of the step was blacklisted by the loop,
\* and the call after it went to another element of the same page, which
\* scores no higher than the blacklisted one
C22_Witness ==
    /\ Len(history) = 2
    /\ blacklist = <<history[1].target>>
    /\ brain_decision = history[2]
    /\ brain_decision.target \notin Range(blacklist) \cup {"", "body"}
    /\ \E i \in 1..Len(world_state) :
          /\ world_state[i].selector = history[1].target
          /\ _score_element(world_state[i], brain_goal, <<>>, world_state)
                >= history[2].confidence

\* C23: when the page is sensed blocked and the recovery chosen for the reason
\* returns False, or no recovery matches the reason, the run ends in that
\* iteration and the result it returns has success=False and the error of
\* that block reason; and an iteration whose blocked verdict stands makes and
\* executes no decision, whether the block was handled or not.
C23_UnresolvedBlockEndsRun ==
    [][(pc = "loop" /\ step < max_steps /\ is_blocked') =>
          /\ pc' \in {"loop", "idle"}
          /\ logged' = logged
          /\ pc' = "loop" => (decisions' = decisions /\ last_decision' = last_decision)
          /\ outcome' = "returned" => result'.decisions = decisions
          /\ handled' = <<FALSE>> =>
                /\ pc' = "idle"
                /\ outcome' = "returned" =>
                      (~result'.success /\ result'.error = BlockedMsg(reason'))]_vars

\* a run was ended by a loading spinner that outlasted the poll, in its second
\* iteration, after a decision of the first
C23_Witness ==
    /\ outcome = "returned"
    /\ is_blocked
    /\ reason = "loading spinner"
    /\ handled = <<FALSE>>
    /\ result.error = "Blocked by: loading spinner"
    /\ ~result.success
    /\ result.decisions = 1

\* ------------------------------------------------------------------------
\* Properties of HeuristicBrain.decide: the winner and the Decision
\* ------------------------------------------------------------------------
\* element i of the page may be a candidate of the call: it is visible,
\* interactive and not blacklisted (heuristic_brain.py 29-34)
Eligible(i) ==
    /\ world_state[i].is_visible
    /\ world_state[i].is_interactive
    /\ world_state[i].selector \notin Range(blacklist)

\* the score _score_element gives element i in the call
ScoreOf(i) == _score_element(world_state[i], brain_goal, history, world_state)

\* C24: for a click or type step with at least one positive-scoring candidate,
\* decide targets the element of maximum score among the visible, interactive,
\* non-blacklisted elements of positive score, the first of them in the order
\* of world_state when several have that score; an invisible or
\* non-interactive element is never the one it targets.
C24_WinnerIsFirstMaximum ==
    [][(/\ BrainDecide
        /\ brain_goal.action \in {"click", "type"}
        /\ \E i \in 1..Len(world_state) : Eligible(i) /\ ScoreOf(i) > 0)
       => /\ chosen' \in 1..Len(world_state)
          /\ Eligible(chosen') /\ ScoreOf(chosen') > 0
          /\ \A j \in 1..Len(world_state) :
                Eligible(j) => \/ ScoreOf(j) < ScoreOf(chosen')
                               \/ ScoreOf(j) = ScoreOf(chosen') /\ chosen' <= j
          /\ brain_decision'.target \in {world_state[chosen'].selector,
                                         world_state[chosen'].shadow_path}
          /\ \A j \in 1..Len(world_state) :
                (~world_state[j].is_visible \/ ~world_state[j].is_interactive)
                   => brain_decision'.target # world_state[j].selector]_vars

\* the first call for a step chose the first of two candidates of equal score
C24_Witness ==
    /\ Len(history) = 1
    /\ brain_goal.action = "click"
    /\ chosen # 0
    /\ brain_decision.target = world_state[chosen].selector
    /\ \E j \in 1..Len(world_state) :
          /\ j > chosen
          /\ world_state[j].is_visible /\ world_state[j].is_interactive
          /\ world_state[j].selector \notin Range(blacklist)
          /\ scores[j] = scores[chosen]

\* C25: for a verify step decide never asks for an interaction: whatever the
\* world state, the history and the blacklist, the Decision it returns has
\* action verify or wait and target "body".
C25_VerifyNeverInteracts ==
    [][(BrainDecide /\ brain_goal.action = "verify")
       => /\ brain_decision'.action \in {"verify", "wait"}
          /\ brain_decision'.target = "body"]_vars

\* a call for a verify step found a candidate on the page, a button, and
\* answered with the verify signal on body
C25_Witness ==
    /\ brain_goal.action = "verify"
    /\ chosen # 0
    /\ world_state[chosen].tag = "button"
    /\ scores[chosen] > 0
    /\ brain_decision = Decision("verify", "body", 100)

\* shadow paths the winner of a call may carry ("": none)
ShadowPaths == {"", "x-app >> button"}

\* C26: for a non-verify step with a winning candidate, the Decision of decide
\* has the action of the step, as target the shadow_path of the winner when it
\* has one and otherwise its selector, as confidence the score of the winner,
\* and metadata.text equal to step.value exactly when the action is type.
C26_DecisionOfWinner ==
    (brain_decision # NoDecision /\ brain_goal.action # "verify" /\ chosen # 0) =>
        \A p \in ShadowPaths :
            LET world == [world_state EXCEPT ![chosen].shadow_path = p]
                d == decide(brain_goal, world, scores)
                metadata == decision_metadata(brain_goal)
            IN /\ d.action = brain_goal.action
               /\ d.target = IF p # "" THEN p ELSE world_state[chosen].selector
               /\ d.confidence = scores[chosen]
               /\ "text" \in DOMAIN metadata <=> d.action = "type"
               /\ "text" \in DOMAIN metadata => metadata["text"] = brain_goal.value

\* C28: in every state of a run 0 <= current_step_index <= len(steps) and the
\* step at position i (counted from 0) has is_completed = True exactly when
\* i < current_step_index; hence ParsedGoal.is_completed holds exactly when
\* current_step is None.
C28_CursorAndFlags ==
    /\ 0 <= current_step_index /\ current_step_index <= Len(steps)
    /\ Len(is_completed) = Len(steps)
    /\ \A i \in 1..Len(steps) : is_completed[i] <=> (i - 1 < current_step_index)
    /\ ParsedGoal_is_completed(is_completed)
          <=> (current_step(current_step_index, steps) = 0)

\* the second run of an orchestrator is in its loop with the first of two
\* steps completed, and a decision for the second step made
C28_Witness ==
    /\ runs = 2
    /\ pc = "act"
    /\ Len(steps) = 2
    /\ current_step_index = 1
    /\ is_completed = <<TRUE, FALSE>>
    /\ ~ParsedGoal_is_completed(is_completed)

\* C29: a single recorder receives the log calls of the whole run: every
\* decision of the returned ExecutionResult.decisions was logged by
\* log_decision to the recorder whose generate_report produced the report of
\* the result, also when the run pivoted to stealth mode.
C29_OneRecorderPerRun ==
    outcome = "returned" =>
        \A i \in 1..result.decisions : <<result.report_path, i>> \in logged

\* C30: a goal step is marked completed only in an iteration in which
\* ActionExecutor.execute returned True for the decision of the iteration;
\* whenever it returns False, the cursor and the flags stay as they are.
C30_CompletionNeedsExecution ==
    [][pc = "act" =>
          /\ StepCompletedNow => exec_ok'
          /\ ~exec_ok' => /\ current_step_index' = current_step_index
                          /\ is_completed' = is_completed]_vars

\* ------------------------------------------------------------------------
\* ActionExecutor.click (executor.py 113-264), one action per strategy
\* ------------------------------------------------------------------------
\* largest max_retries an executor is constructed with
MaxRetriesBound == 3

ActionResult(success, strategy, navigation, error) ==
    [kind |-> "ActionResult", success |-> success, strategy |-> strategy,
     navigation |-> navigation, error |-> error]

\* click() ran to its end without a return statement (the `if element:` of
\* line 219 is false in the last strategy)
ReturnedNone == [NoActionResult EXCEPT !.kind = "None"]

\* a retry that clicks the element it already holds
NeedsResolve_never(att) == FALSE

\* lines 163-167: the element is resolved again before every retry
NeedsResolve(att) == att > 0

\* lines 208-210: the failed attempt was the last one
LastAttempt(att, retries) == att = retries - 1

ClickReturn(r) ==
    /\ click_pc' = "done"
    /\ click_result' = r

clickConfig == <<max_retries, force_js, has_smart_click>>

\* lines 123-158: strategy 0 (the smart click of the stealth manager, whose
\* exception is logged and swallowed), then resolve and scroll;
\* _scroll_into_view and _wait_for_stability swallow what their calls raise
ClickStart ==
    /\ click_pc = "start"
    /\ \/ /\ has_smart_click
          /\ smart_ok' = TRUE
          /\ ClickReturn(ActionResult(TRUE, "stealth_smart_click", FALSE, ""))
          /\ UNCHANGED <<resolves, not_found>>
       \/ /\ resolves' = resolves + 1
          /\ UNCHANGED smart_ok
          /\ \E found \in BOOLEAN :
               IF ~found
               THEN /\ not_found' = TRUE
                    /\ ClickReturn(ActionResult(FALSE, "", FALSE, "Element not found"))
               ELSE /\ click_pc' = (IF force_js \/ max_retries = 0 THEN "js"
                                    ELSE "attempt")
                    /\ UNCHANGED <<not_found, click_result>>
    /\ UNCHANGED <<clickConfig, attempt, std_clicks, std_ok, js_clicks, js_raised,
                   url_changed>>
    /\ UNCHANGED <<orchVars, brainVars, routerVars, parserVars>>

\* lines 161-211: one pass of the loop of strategy 1.  found: what the
\* re-resolution returns; clicked: element.click() returns; changed: the URL
\* differs from url_before when the handler of line 196 looks
StandardAttempt ==
    /\ click_pc = "attempt"
    /\ attempt < max_retries
    /\ \E found \in (IF NeedsResolve(attempt) THEN BOOLEAN ELSE {TRUE}) :
         /\ resolves' = (IF NeedsResolve(attempt) THEN resolves + 1 ELSE resolves)
         /\ IF ~found
            THEN /\ not_found' = TRUE
                 /\ click_pc' = "js"
                 /\ UNCHANGED <<attempt, std_clicks, std_ok, url_changed, click_result>>
            ELSE /\ std_clicks' = std_clicks + 1
                 /\ UNCHANGED not_found
                 /\ \E clicked \in BOOLEAN :
                    \E changed \in (IF clicked THEN {FALSE} ELSE BOOLEAN) :
                      IF clicked
                      THEN /\ std_ok' = TRUE
                           /\ ClickReturn(ActionResult(TRUE, "", FALSE, ""))
                           /\ UNCHANGED <<attempt, url_changed>>
                      ELSE IF changed
                      THEN /\ url_changed' = TRUE
                           /\ ClickReturn(ActionResult(TRUE, "", TRUE, ""))
                           /\ UNCHANGED <<attempt, std_ok>>
                      ELSE IF LastAttempt(attempt, max_retries)
                      THEN /\ click_pc' = "js"
                           /\ UNCHANGED <<attempt, std_ok, url_changed, click_result>>
                      ELSE /\ attempt' = attempt + 1
                           /\ UNCHANGED <<click_pc, std_ok, url_changed, click_result>>
    /\ UNCHANGED <<clickConfig, js_clicks, js_raised, smart_ok>>
    /\ UNCHANGED <<orchVars, brainVars, routerVars, parserVars>>

\* lines 213-264: strategy 2, the JavaScript click, and the handlers behind it
JsFallback ==
    /\ click_pc = "js"
    /\ resolves' = resolves + 1
    /\ \E found \in BOOLEAN :
         IF ~found
         THEN /\ not_found' = TRUE
              /\ ClickReturn(ReturnedNone)
              /\ UNCHANGED <<js_clicks, js_raised, url_changed>>
         ELSE /\ js_clicks' = js_clicks + 1
              /\ UNCHANGED not_found
              /\ \E raised \in BOOLEAN :
                 \E changed \in (IF raised THEN BOOLEAN ELSE {FALSE}) :
                   /\ js_raised' = raised
                   /\ url_changed' = changed
                   /\ IF ~raised
                      THEN ClickReturn(ActionResult(TRUE, "js_fallback", FALSE, ""))
                      ELSE IF changed
                      THEN ClickReturn(ActionResult(TRUE, "", TRUE, ""))
                      ELSE ClickReturn(ActionResult(FALSE, "", FALSE, "JS Click failed"))
    /\ UNCHANGED <<clickConfig, attempt, std_clicks, std_ok, smart_ok>>
    /\ UNCHANGED <<orchVars, brainVars, routerVars, parserVars>>

\* a call of click() on an executor of any configuration
ExecutorInit ==
    /\ stealth_mode = FALSE
    /\ max_steps = 0
    /\ goal = <<>>
    /\ Constructed
    /\ BrainIdle
    /\ RouterIdle
    /\ ParserIdle
    /\ max_retries \in 0..MaxRetriesBound
    /\ force_js \in BOOLEAN
    /\ has_smart_click \in BOOLEAN
    /\ click_pc = "start"
    /\ ClickLocals

ExecutorNext == ClickStart \/ StandardAttempt \/ JsFallback

SpecExecutor == ExecutorInit /\ [][ExecutorNext]_vars

\* ------------------------------------------------------------------------
\* Properties of ActionExecutor.click: retries and the JavaScript fallback
\* ------------------------------------------------------------------------
\* click() has returned for an element every resolution found, no standard
\* click returned and the URL never differed from url_before
AllStandardClicksRaised ==
    /\ click_pc = "done"
    /\ ~not_found
    /\ ~std_ok
    /\ ~url_changed

\* at most max_retries standard attempts, one resolution before the first and
\* one before every retry, then one resolution and one JavaScript click
RetriedThenJsClicked ==
    /\ std_clicks <= max_retries
    /\ resolves = (IF std_clicks = 0 THEN 1 ELSE std_clicks) + 1
    /\ js_clicks = 1

\* C27 as stated: click on a resolvable element whose standard click raises on
\* every attempt, with no URL change, makes at most max_retries standard
\* attempts, resolves the element again before each retry, then performs a
\* JavaScript click and returns success=True with strategy "js_fallback"
C27_ClickFallsBackToJs ==
    AllStandardClicksRaised =>
        /\ RetriedThenJsClicked
        /\ click_result.kind = "ActionResult"
        /\ click_result.success
        /\ click_result.strategy = "js_fallback"

\* C27 amended: when no smart click of a stealth manager succeeded first, click
\* on a resolvable element whose standard click raises on every attempt, with
\* no URL change, makes at most max_retries standard attempts, resolves the
\* element again before each retry and then performs a JavaScript click; when
\* that click returns the result is success=True with strategy "js_fallback",
\* and when it raises too the result is success=False with the error of the
\* JavaScript click
C27_ClickFallsBackToJsUnlessJsRaises ==
    (AllStandardClicksRaised /\ ~smart_ok) =>
        /\ RetriedThenJsClicked
        /\ click_result.kind = "ActionResult"
        /\ IF js_raised
           THEN /\ ~click_result.success
                /\ click_result.error = "JS Click failed"
           ELSE /\ click_result.success
                /\ click_result.strategy = "js_fallback"

\* the default three standard attempts all raised, the element was resolved
\* four times and the JavaScript click succeeded
C27_Witness ==
    /\ AllStandardClicksRaised
    /\ max_retries = DefaultMaxRetries
    /\ std_clicks = DefaultMaxRetries
    /\ resolves = DefaultMaxRetries + 1
    /\ js_clicks = 1
    /\ click_result.success
    /\ click_result.strategy = "js_fallback"

====
